---- MODULE Spec2Model ----
(***************************************************************************)
(* One lobby of the Scrabble Hold'em server (src/server.js, the variant    *)
(* with AI players, lines 1138-2990), modelled as a state machine.  Every  *)
(* socket handler and every timer callback is one atomic action: Node runs *)
(* them to completion on a single thread.                                  *)
(*                                                                         *)
(* The lobby object is the record `lobby`; the fields of the player        *)
(* objects are the functions lobby.totalPoints, lobby.dice, lobby.isHost,  *)
(* indexed by visibleId, and lobby.players is the key order of the players *)
(* Map.  Wall-clock delays of independent timers are abstracted to their   *)
(* order: a timer may fire at any step after it was armed, except where    *)
(* two delays armed by the same event fix the order (30 s before 2 min     *)
(* before 5 min).                                                          *)
(***************************************************************************)
EXTENDS Integers, Sequences, FiniteSets, Bags, TLC

VARIABLES
  lobby,          \* the lobby object created by createLobby
  registered,     \* lobbies.has(lobby.code)
  pendingStarts,  \* setTimeout(startNewRound) callbacks of game:start not yet run
  botTasks,       \* bag of scheduleBotSubmission tasks still alive
  issuedIds,      \* the ids generatePlayerId and lobby:addBot have given out
  events,         \* number of socket events handled so far
  emitted,        \* events emitted by the handler that ran last
  worker,         \* the best-word worker: the payload it was sent, the message it posted
  sockets         \* open sockets the playerSockets Map does not point to

vars == <<lobby, registered, pendingStarts, botTasks, issuedIds, events, emitted, worker, sockets>>

(***************************************************************************)
(* Bounds of the exploration.                                              *)
(***************************************************************************)
TotalRounds == 3         \* settings.totalRounds chosen by the host (3..20)
TimerDuration == 30      \* settings.timerDuration chosen by the host (30..600)
MaxPendingStarts == 2    \* game:start callbacks pending at once
MaxBotTasks == 1         \* bot tasks alive at once
MaxRoundTasks == 2       \* bot tasks alive at once when each carries its round
MaxEvents == 5           \* socket events the clients send in one run
BotRetries == 2          \* data.retries the host sends with lobby:addBot
WorkerCommunityDice == 4 \* community dice in a payload sent to the worker
WorkerPlayerDice == 2    \* player dice in a payload sent to the worker

(***************************************************************************)
(* Program constants.                                                      *)
(***************************************************************************)
HalveFloor == 10         \* Math.max(10, ...) and timerRemaining > 10
NullPlace == 0           \* place: null of an unranked result
CommunityCount == 5      \* dice.length < 5 in rollCommunityDice
MaxRollAttempts == 20    \* attempts < 20
DiversityAttempts == 10  \* attempts > 10
MinRounds == 3           \* Math.max(3, data.totalRounds)
MaxRounds == 20          \* Math.min(20, ...)
MinTimer == 30           \* Math.max(30, data.timerDuration)
MaxTimer == 600          \* Math.min(600, ...)

HostId == "h"
HumanIds == {"h", "p"}
BotIds == {"b"}
Ids == HumanIds \cup BotIds

Range(s) == {s[i] : i \in DOMAIN s}
Without_Keep(s, x) == s    \* a Map.delete that deletes nothing
Without(s, x) == SelectSeq(s, LAMBDA y : y # x)    \* Map.delete
Max(a, b) == IF a > b THEN a ELSE b
Min(a, b) == IF a < b THEN a ELSE b

(***************************************************************************)
(* Tile Source.  A tile is its letter; its points are LetterPoints.  The   *)
(* deck of 63 tiles is scaled down to 14 tiles and Math.random to the      *)
(* small sets below.                                                       *)
(***************************************************************************)
Vowels == {"A", "E", "I", "O", "U"}

LetterPoints(letter) ==
  CASE letter \in {"A", "E", "I", "O", "U", "L", "N", "R", "S", "T"} -> 1
    [] letter \in {"D", "G", "B", "C", "M", "P", "H"} -> 2
    [] letter \in {"F", "V", "W", "Y", "K"} -> 3
    [] letter \in {"J", "X", "Qu", "Z"} -> 4

\* Outcomes of shuffle(createLetterDeck()).
Shuffles ==
  { <<"S", "T", "A", "R", "E", "N", "O", "D", "L", "I", "G", "B", "U", "M">> }

VowelChoices == {"A"}          \* vowels[Math.floor(Math.random() * 5)]
SlotChoices == {0}             \* Math.floor(Math.random() * dice.length)
ModifierChoices == {18}        \* Math.floor(Math.random() * MODIFIERS.length)
DieChoices == {4}              \* Math.floor(Math.random() * 5)

\* The random numbers one startNewRound / resetDeck consumes.
Rolls ==
  [shuffle : Shuffles, vowel : VowelChoices, slot : SlotChoices,
   modIndex : ModifierChoices, dieIndex : DieChoices]

NoModifier == [index |-> -1, dieIndex |-> -1]   \* modifier: null

\* drawLetter on the deck state d = [deck, idx]; the tile drawn is .tile
drawLetter(d, rnd) ==
  LET deck == IF d.idx >= Len(d.deck) THEN rnd.shuffle ELSE d.deck
      idx  == IF d.idx >= Len(d.deck) THEN 0 ELSE d.idx
  IN [tile |-> deck[idx + 1], deck |-> deck, idx |-> idx + 1]

\* an ensureVowel that replaces nothing
ensureVowel_Never(dice, rnd) == dice

ensureVowel(dice, rnd) ==
  IF \E i \in DOMAIN dice : dice[i] \in Vowels
  THEN dice
  ELSE [dice EXCEPT ![rnd.slot + 1] = rnd.vowel]

rollPlayerDice(d, rnd) ==
  LET r1 == drawLetter(d, rnd)
      r2 == drawLetter(r1, rnd)
      r3 == drawLetter(r2, rnd)
  IN [dice |-> ensureVowel(<<r1.tile, r2.tile, r3.tile>>, rnd),
      deck |-> r3.deck, idx |-> r3.idx]

RECURSIVE communityLoop(_, _, _, _, _)
communityLoop(dice, usedLetters, attempts, d, rnd) ==
  IF Len(dice) < CommunityCount /\ attempts < MaxRollAttempts
  THEN LET r == drawLetter(d, rnd)
           take == r.tile \notin usedLetters \/ attempts > DiversityAttempts
       IN communityLoop(IF take THEN Append(dice, r.tile) ELSE dice,
                        IF take THEN usedLetters \cup {r.tile} ELSE usedLetters,
                        attempts + 1, r, rnd)
  ELSE IF Len(dice) < CommunityCount
  THEN LET r == drawLetter(d, rnd)
       IN communityLoop(Append(dice, r.tile), usedLetters, attempts, r, rnd)
  ELSE [dice |-> dice, deck |-> d.deck, idx |-> d.idx]

rollCommunityDice(d, rnd) ==
  LET r == communityLoop(<<>>, {}, 0, d, rnd)
  IN [dice |-> ensureVowel(r.dice, rnd), deck |-> r.deck, idx |-> r.idx]

\* a round without modifier
rollModifier_None(rnd) == NoModifier

rollModifier(rnd) == [index |-> rnd.modIndex, dieIndex |-> rnd.dieIndex]

\* players.forEach(player => player.dice = rollPlayerDice(lobby)), in Map order
RECURSIVE rollAllPlayers(_, _, _, _)
rollAllPlayers(order, dice, d, rnd) ==
  IF order = <<>>
  THEN [dice |-> dice, deck |-> d.deck, idx |-> d.idx]
  ELSE LET r == rollPlayerDice(d, rnd)
       IN rollAllPlayers(Tail(order), [dice EXCEPT ![Head(order)] = r.dice], r, rnd)

(***************************************************************************)
(* Round timer, round start, Placement Ranker and reveal: functions of the *)
(* lobby object, returning the lobby they leave behind.                    *)
(***************************************************************************)
\* a stopTimer that leaves the interval armed
stopTimer_Noop(l) == l

stopTimer(l) == [l EXCEPT !.timerInterval = FALSE]

startTimer(l) ==
  [stopTimer(l) EXCEPT !.timerRemaining = l.settings.timerDuration,
                       !.timerInterval = TRUE]

\* startNewRound without the scheduling of the bots (see ScheduleBots)
startNewRound(l, rnd) ==
  LET d0 == [deck |-> l.letterDeck, idx |-> l.deckIndex]
      c  == rollCommunityDice(d0, rnd)
      p  == rollAllPlayers(l.players, l.dice, c, rnd)
  IN startTimer([l EXCEPT !.roundNumber = l.roundNumber + 1,
                          !.communityDice = c.dice,
                          !.modifier = rollModifier(rnd),
                          !.playerSubmissions = <<>>,
                          !.revealed = FALSE,
                          !.timerRemaining = l.settings.timerDuration,
                          !.dice = p.dice,
                          !.letterDeck = p.deck,
                          !.deckIndex = p.idx])

\* placement points for the winner only
PlacementPoints_WinnerOnly(place) == IF place = 1 THEN 3 ELSE 0

\* PLACEMENT_POINTS[currentPlace] || 0
PlacementPoints(place) ==
  CASE place = 1 -> 3
    [] place = 2 -> 2
    [] place = 3 -> 1
    [] OTHER -> 0

\* Array.prototype.sort((a, b) => b.score - a.score): stable, descending
RECURSIVE insertByScore(_, _)
insertByScore(sorted, x) ==
  IF sorted = <<>> THEN <<x>>
  ELSE IF Head(sorted).score >= x.score
       THEN <<Head(sorted)>> \o insertByScore(Tail(sorted), x)
       ELSE <<x>> \o sorted

RECURSIVE sortByScore(_)
sortByScore(subs) ==
  IF subs = <<>> THEN <<>>
  ELSE insertByScore(sortByScore(SubSeq(subs, 1, Len(subs) - 1)), subs[Len(subs)])

\* dense ranking: the place after a tie is the next number
currentPlace_Dense(sorted, idx) ==
  Cardinality({ sorted[j].score : j \in 1..idx })

\* currentPlace after the map callback has run on index idx (1-based here)
RECURSIVE currentPlace(_, _)
currentPlace(sorted, idx) ==
  IF idx = 1 \/ sorted[idx].score # sorted[idx - 1].score
  THEN idx
  ELSE currentPlace(sorted, idx - 1)

\* a submission map that never has the key
HasSubmission_Never(l, id) == FALSE

HasSubmission(l, id) == \E i \in DOMAIN l.playerSubmissions : l.playerSubmissions[i].visibleId = id
SubmissionOf(l, id) ==
  l.playerSubmissions[CHOOSE i \in DOMAIN l.playerSubmissions : l.playerSubmissions[i].visibleId = id]

\* the results array calculatePlacements returns
placementResults(l) ==
  LET valid == SelectSeq(l.playerSubmissions,
                         LAMBDA s : s.visibleId \in Range(l.players) /\ s.isValid)
      sorted == sortByScore(valid)
      ranked == [i \in 1..Len(sorted) |->
                   [visibleId |-> sorted[i].visibleId, word |-> sorted[i].word,
                    score |-> sorted[i].score, place |-> currentPlace(sorted, i),
                    pointsEarned |-> PlacementPoints(currentPlace(sorted, i)),
                    isInvalid |-> FALSE, noSubmission |-> FALSE]]
      rest == SelectSeq(l.players, LAMBDA id : \A i \in DOMAIN ranked : ranked[i].visibleId # id)
      unranked == [i \in 1..Len(rest) |->
                   IF HasSubmission(l, rest[i])
                   THEN [visibleId |-> rest[i], word |-> SubmissionOf(l, rest[i]).word,
                         score |-> SubmissionOf(l, rest[i]).score, place |-> NullPlace,
                         pointsEarned |-> 0,
                         isInvalid |-> ~SubmissionOf(l, rest[i]).isValid,
                         noSubmission |-> FALSE]
                   ELSE [visibleId |-> rest[i], word |-> "-", score |-> 0,
                         place |-> NullPlace, pointsEarned |-> 0,
                         isInvalid |-> FALSE, noSubmission |-> TRUE]]
  IN ranked \o unranked

\* player.totalPoints += pointsEarned, for the ranked results
awardedPoints(l, results) ==
  [id \in DOMAIN l.totalPoints |->
     IF \E i \in DOMAIN results : results[i].visibleId = id /\ results[i].place # NullPlace
     THEN l.totalPoints[id]
          + results[CHOOSE i \in DOMAIN results : results[i].visibleId = id].pointsEarned
     ELSE l.totalPoints[id]]

calculatePlacements(l) ==
  LET results == placementResults(l)
  IN [results |-> results, totalPoints |-> awardedPoints(l, results)]

\* revealResults that forgets the round is revealed
revealResults_NoFlag(l) ==
  IF l.revealed THEN l
  ELSE LET l1 == stopTimer(l)
           c  == calculatePlacements(l1)
       IN [l1 EXCEPT !.totalPoints = c.totalPoints,
                     !.roundHistory = Append(l.roundHistory,
                        [roundNumber |-> l.roundNumber, results |-> c.results])]

revealResults(l) ==
  IF l.revealed THEN l
  ELSE LET l1 == [stopTimer(l) EXCEPT !.revealed = TRUE]
           c  == calculatePlacements(l1)
       IN [l1 EXCEPT !.totalPoints = c.totalPoints,
                     !.roundHistory = Append(l.roundHistory,
                        [roundNumber |-> l.roundNumber, results |-> c.results])]

(***************************************************************************)
(* Initial state: lobby:create has run (createLobby, resetDeck) and the    *)
(* host has set the settings to TotalRounds rounds of TimerDuration s.     *)
(***************************************************************************)
createLobby(shuffle) ==
  [status |-> "waiting",
   settings |-> [totalRounds |-> TotalRounds, timerDuration |-> TimerDuration],
   players |-> <<HostId>>,
   playerSockets |-> {HostId},
   isHost |-> {HostId},
   totalPoints |-> [id \in Ids |-> 0],
   dice |-> [id \in Ids |-> <<>>],
   roundNumber |-> 0,
   communityDice |-> <<>>,
   modifier |-> NoModifier,
   letterDeck |-> shuffle,
   deckIndex |-> 0,
   playerSubmissions |-> <<>>,
   timerRemaining |-> 0,
   timerInterval |-> FALSE,
   revealed |-> FALSE,
   roundHistory |-> <<>>,
   disconnectedAt |-> {},
   removeTimeout |-> {},
   hostTransferTimeout |-> {},
   deleteTimeout |-> FALSE]

\* no open socket besides those of the playerSockets Map: old are the ids
\* with an open socket that a later lobby:join of the same id has replaced
\* in the Map, orphan the ids whose newest socket is open while the Map has
\* no entry for them
NoSockets == [old |-> {}, orphan |-> {}]

\* the worker before any message: no payload, nothing posted
NoWord == ""    \* bestWord: null

NoPayload == [communityDice |-> <<>>, playerDice |-> <<>>, modifier |-> NoModifier]

NoMessage == [type |-> "", bestWord |-> NoWord, bestScore |-> 0]

WorkerIdle == [payload |-> NoPayload, posted |-> NoMessage]

Init ==
  /\ \E shuffle \in Shuffles : lobby = createLobby(shuffle)
  /\ registered = TRUE
  /\ pendingStarts = 0
  /\ botTasks = EmptyBag
  /\ issuedIds = {HostId}
  /\ events = 0
  /\ emitted = {}
  /\ worker = WorkerIdle
  /\ sockets = NoSockets

PlayerSet == Range(lobby.players)
\* every player passes the host check
IsHostSocket_Anyone(a) == a \in PlayerSet

IsHostSocket(a) == a \in PlayerSet /\ a \in lobby.isHost    \* player?.isHost
Connected(a) == registered /\ a \in lobby.playerSockets    \* a socket of a is open

\* one more socket event is handled
Event == events < MaxEvents /\ events' = events + 1

\* the tasks startNewRound schedules: one per bot in the players Map
ScheduleBots(l) ==
  SetToBag({[bot |-> b, attempts |-> 0] : b \in Range(l.players) \cap BotIds})

(***************************************************************************)
(* Lobby membership.                                                       *)
(***************************************************************************)
\* a join that lets new players in whatever the status
JoinNew_AnyStatus(a) ==
  /\ registered
  /\ a \in HumanIds \ issuedIds
  /\ Event
  /\ lobby' = [lobby EXCEPT !.players = Append(@, a),
                            !.totalPoints[a] = 0,
                            !.dice[a] = <<>>,
                            !.isHost = @ \ {a},
                            !.playerSockets = @ \cup {a},
                            !.deleteTimeout = FALSE]
  /\ issuedIds' = issuedIds \cup {a}
  /\ emitted' = {}
  /\ UNCHANGED <<registered, pendingStarts, botTasks, worker, sockets>>

\* lobby:join without a known existingId
JoinNew(a) ==
  /\ registered
  /\ a \in HumanIds \ issuedIds
  /\ Event
  /\ IF lobby.status # "waiting"
     THEN /\ emitted' = {"lobbyError"}
          /\ UNCHANGED <<lobby, issuedIds>>
     ELSE /\ lobby' = [lobby EXCEPT !.players = Append(@, a),
                                    !.totalPoints[a] = 0,
                                    !.dice[a] = <<>>,
                                    !.isHost = @ \ {a},
                                    !.playerSockets = @ \cup {a},
                                    !.deleteTimeout = FALSE]
          /\ issuedIds' = issuedIds \cup {a}
          /\ emitted' = {}
  /\ UNCHANGED <<registered, pendingStarts, botTasks, worker, sockets>>

\* a rejoin that leaves the pending deletion of the lobby armed
Rejoin_KeepDeletion(a) ==
  /\ registered
  /\ a \in PlayerSet \cap HumanIds
  /\ a \notin lobby.playerSockets
  /\ Event
  /\ lobby' = [lobby EXCEPT !.removeTimeout = @ \ {a},
                            !.hostTransferTimeout = @ \ {a},
                            !.disconnectedAt = @ \ {a},
                            !.playerSockets = @ \cup {a}]
  /\ emitted' = {}
  /\ UNCHANGED <<registered, pendingStarts, botTasks, issuedIds, worker, sockets>>

\* lobby:join with existingId a, a player of the lobby whose socket is gone
Rejoin(a) ==
  /\ registered
  /\ a \in PlayerSet \cap HumanIds
  /\ a \notin lobby.playerSockets
  /\ Event
  /\ lobby' = [lobby EXCEPT !.removeTimeout = @ \ {a},
                            !.hostTransferTimeout = @ \ {a},
                            !.disconnectedAt = @ \ {a},
                            !.playerSockets = @ \cup {a},
                            !.deleteTimeout = FALSE]
  /\ emitted' = {}
  /\ UNCHANGED <<registered, pendingStarts, botTasks, issuedIds, worker, sockets>>

AddBot(a, b) ==
  /\ Connected(a)
  /\ b \in BotIds \ issuedIds
  /\ Event
  /\ IF ~IsHostSocket(a)
     THEN /\ emitted' = {}
          /\ UNCHANGED <<lobby, issuedIds>>
     ELSE IF lobby.status # "waiting"
     THEN /\ emitted' = {"lobbyError"}
          /\ UNCHANGED <<lobby, issuedIds>>
     ELSE /\ lobby' = [lobby EXCEPT !.players = Append(@, b),
                                    !.totalPoints[b] = 0,
                                    !.dice[b] = <<>>,
                                    !.isHost = @ \ {b}]
          /\ issuedIds' = issuedIds \cup {b}
          /\ emitted' = {}
  /\ UNCHANGED <<registered, pendingStarts, botTasks, worker, sockets>>

RemoveBot(a, b) ==
  /\ Connected(a)
  /\ b \in Ids
  /\ Event
  /\ IF ~IsHostSocket(a) \/ b \notin PlayerSet \cap BotIds
     THEN /\ emitted' = {}
          /\ UNCHANGED lobby
     ELSE IF lobby.status # "waiting"
     THEN /\ emitted' = {"lobbyError"}
          /\ UNCHANGED lobby
     ELSE /\ lobby' = [lobby EXCEPT !.players = Without(@, b)]
          /\ emitted' = {}
  /\ UNCHANGED <<registered, pendingStarts, botTasks, issuedIds, worker, sockets>>

\* what a client may send with lobby:updateSettings; 0 is a field left out
SettingsData ==
  { [totalRounds |-> 4, timerDuration |-> 0],
    [totalRounds |-> 1, timerDuration |-> 20] }

\* lobby.settings after the two clamped assignments
updatedSettings(settings, data) ==
  [totalRounds |-> IF data.totalRounds # 0
                   THEN Min(MaxRounds, Max(MinRounds, data.totalRounds))
                   ELSE settings.totalRounds,
   timerDuration |-> IF data.timerDuration # 0
                     THEN Min(MaxTimer, Max(MinTimer, data.timerDuration))
                     ELSE settings.timerDuration]

\* lobby:updateSettings
UpdateSettings(a, data) ==
  /\ Connected(a)
  /\ Event
  /\ IF IsHostSocket(a)
     THEN /\ lobby' = [lobby EXCEPT !.settings = updatedSettings(@, data)]
          /\ emitted' = {"settingsUpdated"}
     ELSE /\ emitted' = {}
          /\ UNCHANGED lobby
  /\ UNCHANGED <<registered, pendingStarts, botTasks, issuedIds, worker, sockets>>

(***************************************************************************)
(* Game flow.                                                              *)
(***************************************************************************)
\* game:start
GameStart(a) ==
  /\ Connected(a)
  /\ Event
  /\ IF ~IsHostSocket(a)
     THEN /\ emitted' = {"gameError"}
          /\ UNCHANGED <<lobby, pendingStarts>>
     ELSE /\ pendingStarts < MaxPendingStarts
          /\ lobby' = [lobby EXCEPT !.status = "playing",
                                    !.roundNumber = 0,
                                    !.totalPoints =
                                       [id \in Ids |-> IF id \in PlayerSet THEN 0 ELSE @[id]]]
          /\ pendingStarts' = pendingStarts + 1
          /\ emitted' = {"gameStarting"}
  /\ UNCHANGED <<registered, botTasks, issuedIds, worker, sockets>>

\* the setTimeout callback of game:start
StartRoundTimeout ==
  /\ pendingStarts > 0
  /\ BagCardinality(botTasks (+) ScheduleBots(lobby)) <= MaxBotTasks
  /\ \E rnd \in Rolls : lobby' = startNewRound(lobby, rnd)
  /\ pendingStarts' = pendingStarts - 1
  /\ botTasks' = botTasks (+) ScheduleBots(lobby)
  /\ emitted' = {"newRound"}
  /\ UNCHANGED <<registered, issuedIds, events, worker, sockets>>

\* game:nextRound
NextRound(a) ==
  /\ Connected(a)
  /\ Event
  /\ IF /\ IsHostSocket(a)
        /\ lobby.status = "playing"
        /\ lobby.revealed
        /\ lobby.roundNumber < lobby.settings.totalRounds
     THEN /\ BagCardinality(botTasks (+) ScheduleBots(lobby)) <= MaxBotTasks
          /\ \E rnd \in Rolls : lobby' = startNewRound(lobby, rnd)
          /\ botTasks' = botTasks (+) ScheduleBots(lobby)
          /\ emitted' = {"newRound"}
     ELSE /\ emitted' = {}
          /\ UNCHANGED <<lobby, botTasks>>
  /\ UNCHANGED <<registered, pendingStarts, issuedIds, worker, sockets>>

\* what a client may send with player:submitWord
Submissions ==
  { [word |-> "CAT", score |-> 5, isValid |-> TRUE],
    [word |-> "DOGS", score |-> 7, isValid |-> TRUE],
    [word |-> "XQ", score |-> 0, isValid |-> FALSE] }

\* a Map.set that stores nothing
setSubmission_Drop(subs, id, sub) == subs

\* playerSubmissions.set(id, sub): a Map keeps the position of a key it holds
setSubmission(subs, id, sub) ==
  LET entry == [visibleId |-> id, word |-> sub.word, score |-> sub.score,
                isValid |-> sub.isValid]
  IN IF \E i \in DOMAIN subs : subs[i].visibleId = id
     THEN [i \in DOMAIN subs |-> IF subs[i].visibleId = id THEN entry ELSE subs[i]]
     ELSE Append(subs, entry)

\* halving without the floor of 10 seconds
halvedTime_NoFloor(remaining) == remaining \div 2

\* Math.max(10, Math.floor(timerRemaining / 2))
halvedTime(remaining) == Max(HalveFloor, remaining \div 2)

\* halving on every submission, new or not
halves_Resubmission(l, isNewSubmission) ==
  /\ Len(l.playerSubmissions) # Len(l.players)
  /\ l.timerRemaining > HalveFloor

\* isNewSubmission && !allSubmitted && timerRemaining > 10, with id's
\* submission already stored in l
halves(l, isNewSubmission) ==
  /\ isNewSubmission
  /\ Len(l.playerSubmissions) # Len(l.players)
  /\ l.timerRemaining > HalveFloor

\* the part of player:submitWord and of submitBotWord after the revealed
\* check: store, halve, reveal when playerSubmissions.size === players.size
recordSubmission(l, id, sub) ==
  LET l1 == [l EXCEPT !.playerSubmissions = setSubmission(@, id, sub)]
      l2 == IF halves(l1, ~HasSubmission(l, id))
            THEN [l1 EXCEPT !.timerRemaining = halvedTime(@)]
            ELSE l1
  IN IF Len(l2.playerSubmissions) = Len(l2.players) THEN revealResults(l2) ELSE l2

\* the broadcasts of that part: game:timerHalved, game:roundResults
recordEvents(l, id, sub) ==
  LET l1 == [l EXCEPT !.playerSubmissions = setSubmission(@, id, sub)]
  IN (IF halves(l1, ~HasSubmission(l, id)) THEN {"timerHalved"} ELSE {})
     \cup (IF Len(l1.playerSubmissions) = Len(l1.players) /\ ~l.revealed
           THEN {"roundResults"} ELSE {})

\* player:submitWord
SubmitWord(a, data) ==
  /\ Connected(a)
  /\ a \in PlayerSet
  /\ Event
  /\ IF lobby.revealed
     THEN /\ emitted' = {"submitError"}
          /\ UNCHANGED lobby
     ELSE /\ lobby' = recordSubmission(lobby, a, data)
          /\ emitted' = {"submitConfirmed"} \cup recordEvents(lobby, a, data)
  /\ UNCHANGED <<registered, pendingStarts, botTasks, issuedIds, worker, sockets>>

\* the setInterval callback of startTimer
Tick ==
  /\ lobby.timerInterval
  /\ LET l1 == [lobby EXCEPT !.timerRemaining = @ - 1]
     IN IF l1.timerRemaining <= 0
        THEN /\ lobby' = revealResults(stopTimer(l1))
             /\ emitted' = IF l1.revealed THEN {} ELSE {"roundResults"}
        ELSE /\ lobby' = l1
             /\ emitted' = {}
  /\ UNCHANGED <<registered, pendingStarts, botTasks, issuedIds, events, worker, sockets>>

\* game:viewFinalResults
ViewFinalResults(a) ==
  /\ Connected(a)
  /\ Event
  /\ IF /\ IsHostSocket(a)
        /\ lobby.roundNumber >= lobby.settings.totalRounds
        /\ lobby.status # "finished"
     THEN /\ lobby' = [lobby EXCEPT !.status = "finished"]
          /\ emitted' = {"finalResults"}
     ELSE /\ emitted' = {}
          /\ UNCHANGED lobby
  /\ UNCHANGED <<registered, pendingStarts, botTasks, issuedIds, worker, sockets>>

\* a reset that keeps the history of the rounds played
resetGame_KeepHistory(l, rnd) ==
  [l EXCEPT !.status = "waiting",
            !.roundNumber = 0,
            !.communityDice = <<>>,
            !.modifier = NoModifier,
            !.playerSubmissions = <<>>,
            !.revealed = FALSE,
            !.letterDeck = rnd.shuffle,
            !.deckIndex = 0,
            !.totalPoints = [id \in Ids |-> IF id \in Range(l.players) THEN 0 ELSE @[id]],
            !.dice = [id \in Ids |-> IF id \in Range(l.players) THEN <<>> ELSE @[id]]]

\* the reset shared by game:endEarly and game:playAgain
resetGame(l, rnd) ==
  [l EXCEPT !.status = "waiting",
            !.roundNumber = 0,
            !.communityDice = <<>>,
            !.modifier = NoModifier,
            !.playerSubmissions = <<>>,
            !.revealed = FALSE,
            !.roundHistory = <<>>,
            !.letterDeck = rnd.shuffle,
            !.deckIndex = 0,
            !.totalPoints = [id \in Ids |-> IF id \in Range(l.players) THEN 0 ELSE @[id]],
            !.dice = [id \in Ids |-> IF id \in Range(l.players) THEN <<>> ELSE @[id]]]

\* game:endEarly
EndEarly(a) ==
  /\ Connected(a)
  /\ Event
  /\ IF IsHostSocket(a) /\ lobby.status = "playing"
     THEN /\ \E rnd \in Rolls : lobby' = resetGame(stopTimer(lobby), rnd)
          /\ emitted' = {"returnToLobby"}
     ELSE /\ emitted' = {}
          /\ UNCHANGED lobby
  /\ UNCHANGED <<registered, pendingStarts, botTasks, issuedIds, worker, sockets>>

\* game:playAgain
PlayAgain(a) ==
  /\ Connected(a)
  /\ Event
  /\ IF IsHostSocket(a) /\ lobby.status = "finished"
     THEN /\ \E rnd \in Rolls : lobby' = resetGame(lobby, rnd)
          /\ emitted' = {"returnToLobby"}
     ELSE /\ emitted' = {}
          /\ UNCHANGED lobby
  /\ UNCHANGED <<registered, pendingStarts, botTasks, issuedIds, worker, sockets>>

(***************************************************************************)
(* Disconnects and the three timers they arm.                              *)
(***************************************************************************)
\* a disconnect that deletes the player at once
Disconnect_Remove(a) ==
  /\ Connected(a)
  /\ a \in PlayerSet
  /\ Event
  /\ lobby' = [lobby EXCEPT !.playerSockets = @ \ {a},
                            !.players = Without(@, a),
                            !.deleteTimeout = IF lobby.playerSockets \ {a} = {} THEN TRUE ELSE @]
  /\ emitted' = {}
  /\ UNCHANGED <<registered, pendingStarts, botTasks, issuedIds, worker, sockets>>

\* the disconnect event of a's socket
Disconnect(a) ==
  /\ Connected(a)
  /\ a \in PlayerSet
  /\ Event
  /\ lobby' = [lobby EXCEPT
       !.playerSockets = @ \ {a},
       !.disconnectedAt = @ \cup {a},
       !.hostTransferTimeout =
          IF a \in lobby.isHost /\ lobby.status = "waiting" THEN @ \cup {a} ELSE @,
       !.removeTimeout = @ \cup {a},
       !.deleteTimeout = IF lobby.playerSockets \ {a} = {} THEN TRUE ELSE @]
  /\ emitted' = {}
  /\ UNCHANGED <<registered, pendingStarts, botTasks, issuedIds, worker, sockets>>

\* the first other player in Map order, connected or not
firstConnectedOther_Any(l, a) == SelectSeq(l.players, LAMBDA id : id # a)

\* the first other connected player in Map order, <<>> when there is none
firstConnectedOther(l, a) ==
  SelectSeq(l.players, LAMBDA id : id \in l.playerSockets /\ id # a)

\* the hostTransferTimeout callback, 30 s after the disconnect of a
HostTransferTimeout(a) ==
  /\ a \in lobby.hostTransferTimeout
  /\ LET l1 == [lobby EXCEPT !.hostTransferTimeout = @ \ {a}]
         others == firstConnectedOther(lobby, a)
     IN lobby' = IF a \notin lobby.playerSockets /\ a \in lobby.isHost /\ others # <<>>
                 THEN [l1 EXCEPT !.isHost = (@ \ {a}) \cup {Head(others)}]
                 ELSE l1
  /\ emitted' = {}
  /\ UNCHANGED <<registered, pendingStarts, botTasks, issuedIds, events, worker, sockets>>

\* the removeTimeout callback, 2 min after the disconnect of a
RemoveTimeout(a) ==
  /\ a \in lobby.removeTimeout
  /\ a \notin lobby.hostTransferTimeout
  /\ LET l1 == [lobby EXCEPT !.removeTimeout = @ \ {a}]
         l2 == [l1 EXCEPT !.players = Without(@, a), !.disconnectedAt = @ \ {a}]
     IN IF registered /\ a \notin lobby.playerSockets
        THEN IF l2.players = <<>>
             THEN /\ lobby' = stopTimer(l2)
                  /\ registered' = FALSE
             ELSE /\ lobby' = l2
                  /\ UNCHANGED registered
        ELSE /\ lobby' = l1
             /\ UNCHANGED registered
  /\ emitted' = {}
  /\ UNCHANGED <<pendingStarts, botTasks, issuedIds, events, worker, sockets>>

\* the deleteTimeout callback, 5 min after the last socket went away
DeleteTimeout ==
  /\ lobby.deleteTimeout
  /\ lobby.removeTimeout = {}
  /\ IF registered /\ lobby.playerSockets = {}
     THEN /\ lobby' = [stopTimer(lobby) EXCEPT !.deleteTimeout = FALSE]
          /\ registered' = FALSE
     ELSE /\ lobby' = [lobby EXCEPT !.deleteTimeout = FALSE]
          /\ UNCHANGED registered
  /\ emitted' = {}
  /\ UNCHANGED <<pendingStarts, botTasks, issuedIds, events, worker, sockets>>

(***************************************************************************)
(* Scoring Engine.  A die is its letter (its points are LetterPoints); the *)
(* letter of the digraph tile is "Qu".  A word is a string of the          *)
(* vocabulary below; Spell gives its characters, upper case.  A tile id    *)
(* such as "community-0" is the record [source, digits].                   *)
(***************************************************************************)
ModifierBase ==
  [type |-> "", multiplier |-> 1, position |-> "", minLength |-> 0,
   exactLength |-> 0, maxLength |-> 0, parity |-> "", compositionType |-> "",
   minVowels |-> 0, minConsonants |-> 0, bonus |-> 0]

\* const MODIFIERS; a field left out is 0 or ""
MODIFIERS ==
  << [ModifierBase EXCEPT !.type = "multiply", !.multiplier = 2],
     [ModifierBase EXCEPT !.type = "multiply", !.multiplier = 3],
     [ModifierBase EXCEPT !.type = "multiply", !.multiplier = 4],
     [ModifierBase EXCEPT !.type = "position", !.multiplier = 2, !.position = "start"],
     [ModifierBase EXCEPT !.type = "position", !.multiplier = 2, !.position = "end"],
     [ModifierBase EXCEPT !.type = "position", !.multiplier = 3, !.position = "middle"],
     [ModifierBase EXCEPT !.type = "position", !.multiplier = 2, !.position = "second"],
     [ModifierBase EXCEPT !.type = "position", !.multiplier = 2, !.position = "penultimate"],
     [ModifierBase EXCEPT !.type = "position", !.multiplier = 3, !.position = "center"],
     [ModifierBase EXCEPT !.type = "length", !.minLength = 6, !.bonus = 12],
     [ModifierBase EXCEPT !.type = "length", !.multiplier = 3, !.exactLength = 4],
     [ModifierBase EXCEPT !.type = "length", !.multiplier = 2, !.exactLength = 5, !.bonus = 5],
     [ModifierBase EXCEPT !.type = "length", !.exactLength = 3, !.bonus = 10],
     [ModifierBase EXCEPT !.type = "parity", !.parity = "odd", !.bonus = 8],
     [ModifierBase EXCEPT !.type = "parity", !.parity = "even", !.bonus = 8],
     [ModifierBase EXCEPT !.type = "neighbor", !.multiplier = 2],
     [ModifierBase EXCEPT !.type = "composition", !.compositionType = "balanced", !.bonus = 6],
     [ModifierBase EXCEPT !.type = "composition", !.compositionType = "vowelRich", !.bonus = 10],
     [ModifierBase EXCEPT !.type = "bonus", !.bonus = 5],
     [ModifierBase EXCEPT !.type = "bonus", !.bonus = 10] >>

\* the entry of MODIFIERS a rolled modifier spreads into lobby.modifier
ModifierOf(m) == MODIFIERS[m.index + 1]

\* the characters of a die letter, upper case
Chars(letter) == IF letter = "Qu" THEN <<"Q", "U">> ELSE <<letter>>

\* die.letter.length
LetterLength(letter) == Len(Chars(letter))

RECURSIVE Flatten(_)
Flatten(letters) ==
  IF letters = <<>> THEN <<>> ELSE Chars(Head(letters)) \o Flatten(Tail(letters))

\* a count of tiles, a two-letter tile counting one
SumLengths_Tiles(letters) == Len(letters)

\* reduce((sum, wd) => sum + wd.die.letter.length, 0)
RECURSIVE SumLengths(_)
SumLengths(letters) ==
  IF letters = <<>> THEN 0 ELSE LetterLength(Head(letters)) + SumLengths(Tail(letters))

\* the vocabulary: the words an oracle or a client may name
Spell(word) ==
  CASE word = "TIRE" -> <<"T", "I", "R", "E">>
    [] word = "TILE" -> <<"T", "I", "L", "E">>
    [] word = "STALE" -> <<"S", "T", "A", "L", "E">>
    [] word = "LARGEST" -> <<"L", "A", "R", "G", "E", "S", "T">>
    [] word = "AGE" -> <<"A", "G", "E">>
    [] word = "STAR" -> <<"S", "T", "A", "R">>
    [] word = "TIRS" -> <<"T", "I", "R", "S">>
    [] word = "LIST" -> <<"L", "I", "S", "T">>
    [] word = "SLIT" -> <<"S", "L", "I", "T">>
    [] word = "SILT" -> <<"S", "I", "L", "T">>
    [] word = "SAIL" -> <<"S", "A", "I", "L">>
    [] word = "TAIL" -> <<"T", "A", "I", "L">>
    [] word = "LIT" -> <<"L", "I", "T">>
    [] word = "SIT" -> <<"S", "I", "T">>
    [] word = "SAT" -> <<"S", "A", "T">>
    [] word = "IT" -> <<"I", "T">>
    [] word = "AT" -> <<"A", "T">>
    [] word = "QUIT" -> <<"Q", "U", "I", "T">>
    [] word = "QUITE" -> <<"Q", "U", "I", "T", "E">>
    [] word = "TIE" -> <<"T", "I", "E">>
    [] word = "MUST" -> <<"M", "U", "S", "T">>
    [] word = "BOND" -> <<"B", "O", "N", "D">>
    [] word = "BEAR" -> <<"B", "E", "A", "R">>
    [] word = "QUART" -> <<"Q", "U", "A", "R", "T">>
    [] word = "QUAIL" -> <<"Q", "U", "A", "I", "L">>
    [] word = "QUILT" -> <<"Q", "U", "I", "L", "T">>
    [] word = "ALL" -> <<"A", "L", "L">>
    [] word = "CAT" -> <<"C", "A", "T">>
    [] word = "DOGS" -> <<"D", "O", "G", "S">>
    [] word = "QUARTZ" -> <<"Q", "U", "A", "R", "T", "Z">>
    [] word = "STORM" -> <<"S", "T", "O", "R", "M">>
    [] OTHER -> <<>>

Vocabulary ==
  {"TIRE", "TILE", "STALE", "LARGEST", "AGE", "STAR", "TIRS", "LIST", "SLIT",
   "SILT", "SAIL", "TAIL", "LIT", "SIT", "SAT", "IT", "AT", "QUIT", "QUITE", "TIE", "MUST", "BOND", "BEAR",
   "QUART", "QUAIL", "QUILT", "ALL", "CAT", "DOGS", "QUARTZ", "STORM"}

\* the dictionary Set: the vocabulary without the non-word
dictionary == Vocabulary \ {"TIRS"}

IsVowel(char) == char \in Vowels

\* the number of vowels among the characters chars
RECURSIVE VowelCount(_)
VowelCount(chars) ==
  IF chars = <<>> THEN 0
  ELSE (IF IsVowel(Head(chars)) THEN 1 ELSE 0) + VowelCount(Tail(chars))

NoEffect == [applies |-> FALSE, multiplier |-> 1, bonus |-> 0]

\* the first index (from 0) of x in seq, -1 when it is not there
IndexOf(seq, x) ==
  IF \E k \in DOMAIN seq : seq[k] = x
  THEN (CHOOSE k \in DOMAIN seq : seq[k] = x /\ \A j \in 1..(k - 1) : seq[j] # x) - 1
  ELSE -1

\* the digits a tile id may end in, and parseInt of them
TileDigits == {"0", "1", "2", "3", "4", "00", "9"}

ParseInt(digits) ==
  CASE digits = "0" -> 0
    [] digits = "1" -> 1
    [] digits = "2" -> 2
    [] digits = "3" -> 3
    [] digits = "4" -> 4
    [] digits = "00" -> 0
    [] digits = "9" -> 9

\* `${i}`
ToDigits(i) ==
  CASE i = 0 -> "0"
    [] i = 1 -> "1"
    [] i = 2 -> "2"
    [] i = 3 -> "3"
    [] i = 4 -> "4"
    [] OTHER -> "9"

TileId(source, i) == [source |-> source, digits |-> ToDigits(i)]

NoDie == ""    \* undefined

\* communityDice[dieIndex] or playerDice[dieIndex] for tile id tileId
dieOf(l, bot, tileId) ==
  LET dice == IF tileId.source = "community" THEN l.communityDice
              ELSE IF tileId.source = "player" THEN l.dice[bot]
              ELSE <<>>
      i == ParseInt(tileId.digits)
  IN IF i + 1 \in DOMAIN dice THEN dice[i + 1] ELSE NoDie

\* a bonus modifier that pays whether its tile is used or not
modifierEffect_BonusAlways(mod, letters, mti) ==
  [applies |-> TRUE, multiplier |-> 1, bonus |-> mod.bonus]

\* a length modifier that multiplies whatever the length
modifierEffect_AnyLength(mod, letters, mti) ==
  IF mti < 0 THEN NoEffect
  ELSE [applies |-> TRUE, multiplier |-> mod.multiplier, bonus |-> mod.bonus]

\* validateAndScoreBotWord, the switch on modifier.type: modifierApplies,
\* modifierMultiplier, modifierBonusPoints for the dice letters of the word
\* and the index mti of the modifier tile in it (-1: not selected)
modifierEffect(mod, letters, mti) ==
  IF mti < 0 THEN NoEffect
  ELSE
    LET letterCount == SumLengths(letters)
        modifierLetterPos == SumLengths(SubSeq(letters, 1, mti))
        modTileLen == LetterLength(letters[mti + 1])
        tileContainsLetterPos(targetPos) ==
          targetPos >= modifierLetterPos /\ targetPos < modifierLetterPos + modTileLen
        chars == Flatten(letters)
        vowelCount == VowelCount(chars)
        consonantCount == letterCount - vowelCount
        multiplied == [applies |-> TRUE, multiplier |-> mod.multiplier, bonus |-> 0]
        both == [applies |-> TRUE, multiplier |-> mod.multiplier, bonus |-> mod.bonus]
        flat == [applies |-> TRUE, multiplier |-> 1, bonus |-> mod.bonus]
    IN CASE mod.type = "multiply" -> multiplied
         [] mod.type = "position" ->
              IF \/ mod.position = "start" /\ modifierLetterPos = 0
                 \/ mod.position = "end" /\ modifierLetterPos + modTileLen = letterCount
                 \/ mod.position = "middle" /\ modifierLetterPos > 0
                      /\ modifierLetterPos + modTileLen < letterCount
                 \/ mod.position = "second" /\ tileContainsLetterPos(1)
                 \/ mod.position = "penultimate" /\ tileContainsLetterPos(letterCount - 2)
                      /\ letterCount >= 2
                 \/ mod.position = "center" /\ letterCount % 2 = 1
                      /\ tileContainsLetterPos(letterCount \div 2)
              THEN multiplied ELSE NoEffect
         [] mod.type = "length" ->
              IF \/ mod.minLength # 0 /\ letterCount >= mod.minLength
                 \/ mod.exactLength # 0 /\ letterCount = mod.exactLength
              THEN both ELSE NoEffect
         [] mod.type = "parity" ->
              IF \/ mod.parity = "odd" /\ letterCount % 2 = 1
                 \/ mod.parity = "even" /\ letterCount % 2 # 1
              THEN flat ELSE NoEffect
         [] mod.type = "neighbor" ->
              LET prevEndsWithVowel ==
                    mti > 0 /\ IsVowel(Chars(letters[mti])[LetterLength(letters[mti])])
                  nextStartsWithVowel ==
                    mti < Len(letters) - 1 /\ IsVowel(Chars(letters[mti + 2])[1])
              IN IF prevEndsWithVowel \/ nextStartsWithVowel THEN multiplied ELSE NoEffect
         [] mod.type = "composition" ->
              IF \/ mod.compositionType = "balanced" /\ vowelCount = consonantCount
                 \/ mod.compositionType = "vowelRich" /\ vowelCount > consonantCount
              THEN flat ELSE NoEffect
         [] mod.type = "bonus" -> flat
         [] OTHER -> NoEffect

RECURSIVE SumPoints(_, _, _)
\* baseScore: the points of the dice, times factor for the dice at the
\* positions in modified
SumPoints(letters, modified, factor) ==
  IF letters = <<>> THEN 0
  ELSE LET n == Len(letters)
       IN SumPoints(SubSeq(letters, 1, n - 1), modified, factor)
          + LetterPoints(letters[n]) * (IF n \in modified THEN factor ELSE 1)

Rejection(word, reason) ==
  [isValid |-> FALSE, reason |-> reason, word |-> word, score |-> 0]

\* validateAndScoreBotWord(lobby, player, word, tileIds)
validateAndScoreBotWord(l, bot, word, tileIds) ==
  LET n == Len(tileIds)
      duplicate(k) == \E j \in 1..(k - 1) : tileIds[j] = tileIds[k]
      bad == { k \in 1..n : duplicate(k) \/ dieOf(l, bot, tileIds[k]) = NoDie }
      letters == [k \in 1..n |-> dieOf(l, bot, tileIds[k])]
      modifierDieId == TileId("community", l.modifier.dieIndex)
      mti == IndexOf(tileIds, modifierDieId)
      effect == modifierEffect(ModifierOf(l.modifier), letters, mti)
      modified == IF effect.applies /\ effect.multiplier > 1
                  THEN { k \in 1..n : tileIds[k] = modifierDieId } ELSE {}
  IN IF word \notin dictionary THEN Rejection(word, "not in dictionary")
     ELSE IF bad # {}
     THEN LET k == CHOOSE k \in bad : \A j \in bad : k <= j
          IN IF duplicate(k) THEN Rejection(word, "duplicate tile")
             ELSE Rejection(word, "invalid tile")
     ELSE IF Flatten(letters) # Spell(word)
     THEN Rejection(word, "tiles do not match word")
     ELSE IF ~\E k \in 1..n : tileIds[k].source = "player"
     THEN Rejection(word, "must use player die")
     ELSE [isValid |-> TRUE, reason |-> "", word |-> word,
           score |-> SumPoints(letters, modified, effect.multiplier) + effect.bonus]

(***************************************************************************)
(* The word-proposal oracle (generateBotWord): what comes back is nothing  *)
(* parseable, or a word with a list of tile ids.                           *)
(***************************************************************************)
Unparseable == [kind |-> "unparseable", word |-> "", tileIds |-> <<>>]

Candidate(word, tileIds) == [kind |-> "candidate", word |-> word, tileIds |-> tileIds]

\* the request generateBotWord sends: the tiles of the round with their ids
\* and points, and the modifier with the die it sits on
generateBotWordPrompt(l, bot) ==
  [communityTiles |-> [i \in DOMAIN l.communityDice |->
                         [id |-> TileId("community", i - 1), letter |-> l.communityDice[i],
                          points |-> LetterPoints(l.communityDice[i])]],
   playerTiles |-> [i \in DOMAIN l.dice[bot] |->
                      [id |-> TileId("player", i - 1), letter |-> l.dice[bot][i],
                       points |-> LetterPoints(l.dice[bot][i])]],
   bonus |-> l.modifier]

\* the tiles the prompt lists for bot: community-i and player-i
PromptTiles(l, bot) ==
  { [id |-> TileId("community", i - 1), letter |-> l.communityDice[i]] :
      i \in DOMAIN l.communityDice }
  \cup { [id |-> TileId("player", i - 1), letter |-> l.dice[bot][i]] :
           i \in DOMAIN l.dice[bot] }

IsPrefix(p, s) == Len(p) <= Len(s) /\ SubSeq(s, 1, Len(p)) = p

\* the lists of distinct tile ids of tiles whose letters spell chars
RECURSIVE Spellings(_, _, _)
Spellings(tiles, used, chars) ==
  IF chars = <<>> THEN {<<>>}
  ELSE UNION { { <<t.id>> \o rest :
                   rest \in Spellings(tiles, used \cup {t.id},
                                      SubSeq(chars, LetterLength(t.letter) + 1, Len(chars))) } :
               t \in { u \in tiles : u.id \notin used /\ IsPrefix(Chars(u.letter), chars) } }

\* the words the oracle names in a game
OracleWords == {"TIRE", "MUST", "BOND", "BEAR", "STAR"}

\* the answers of the oracle to the prompt of bot: nothing parseable, a
\* non-word, and each of its words with tiles of the prompt that spell it
OracleResponses(l, bot) ==
  {Unparseable, Candidate("TIRS", <<TileId("player", 0)>>)}
  \cup UNION { LET spellings == Spellings(PromptTiles(l, bot), {}, Spell(w))
                IN IF spellings = {} THEN {}
                   ELSE {Candidate(w, CHOOSE ids \in spellings : TRUE)} :
                w \in OracleWords }

(***************************************************************************)
(* Bot tasks (scheduleBotSubmission).  attempts = 0: the 3-8 s delay is    *)
(* running; attempts = k > 0: the task awaits its k-th generateBotWord.    *)
(***************************************************************************)
\* submitBotWord
submitBotWord(l, bot, validation) ==
  IF l.revealed THEN l ELSE recordSubmission(l, bot, validation)

\* the setTimeout callback of scheduleBotSubmission
BotTimeout(t) ==
  /\ BagIn(t, botTasks)
  /\ t.attempts = 0
  /\ botTasks' = IF lobby.revealed \/ lobby.modifier = NoModifier
                 THEN botTasks (-) SetToBag({t})
                 ELSE (botTasks (-) SetToBag({t})) (+) SetToBag({[t EXCEPT !.attempts = 1]})
  /\ emitted' = {}
  /\ UNCHANGED <<lobby, registered, pendingStarts, issuedIds, events, worker, sockets>>

\* a loop that goes on whatever the number of attempts
nextAttempt_Unbounded(tasks, t, l) ==
  (tasks (-) SetToBag({t})) (+) SetToBag({[t EXCEPT !.attempts = @ + 1]})

\* the task goes on after an attempt that gave no submission
nextAttempt(tasks, t, l) ==
  IF t.attempts < BotRetries /\ l.modifier # NoModifier
  THEN (tasks (-) SetToBag({t})) (+) SetToBag({[t EXCEPT !.attempts = @ + 1]})
  ELSE tasks (-) SetToBag({t})

\* generateBotWord returns outcome; a candidate goes through
\* validateAndScoreBotWord and, accepted, through submitBotWord
BotOracleReturn(t, outcome) ==
  /\ BagIn(t, botTasks)
  /\ t.attempts > 0
  /\ LET validation ==
           IF outcome.kind = "candidate" /\ lobby.modifier # NoModifier
           THEN validateAndScoreBotWord(lobby, t.bot, outcome.word, outcome.tileIds)
           ELSE Rejection(outcome.word, outcome.kind)
     IN IF validation.isValid
        THEN /\ lobby' = submitBotWord(lobby, t.bot, validation)
             /\ emitted' = IF lobby.revealed THEN {}
                           ELSE recordEvents(lobby, t.bot, validation)
             /\ botTasks' = botTasks (-) SetToBag({t})
        ELSE /\ botTasks' = nextAttempt(botTasks, t, lobby)
             /\ emitted' = {}
             /\ UNCHANGED lobby
  /\ UNCHANGED <<registered, pendingStarts, issuedIds, events, worker, sockets>>

BotTaskStates == [bot : BotIds, attempts : 0..BotRetries]

\* the handlers and callbacks that concern human players
HumanNext ==
  \/ \E a \in Ids : JoinNew(a)
  \/ \E a \in Ids : Rejoin(a)
  \/ \E a \in Ids, data \in SettingsData : UpdateSettings(a, data)
  \/ \E a \in Ids : GameStart(a)
  \/ StartRoundTimeout
  \/ \E a \in Ids : NextRound(a)
  \/ \E a \in Ids, data \in Submissions : SubmitWord(a, data)
  \/ Tick
  \/ \E a \in Ids : ViewFinalResults(a)
  \/ \E a \in Ids : EndEarly(a)
  \/ \E a \in Ids : PlayAgain(a)
  \/ \E a \in Ids : Disconnect(a)
  \/ \E a \in Ids : HostTransferTimeout(a)
  \/ \E a \in Ids : RemoveTimeout(a)
  \/ DeleteTimeout

\* the handlers and callbacks that concern AI players
BotNext ==
  \/ \E a \in Ids, b \in BotIds : AddBot(a, b)
  \/ \E a \in Ids, b \in BotIds : RemoveBot(a, b)
  \/ \E t \in BotTaskStates : BotTimeout(t)
  \/ \E t \in BotTaskStates :
       /\ BagIn(t, botTasks)
       /\ t.attempts > 0
       /\ \E outcome \in OracleResponses(lobby, t.bot) : BotOracleReturn(t, outcome)

Next == HumanNext \/ BotNext

Spec == Init /\ [][Next]_vars

(***************************************************************************)
(* Vocabulary of the properties.                                           *)

(***************************************************************************)
(* The Placement Ranker on a table of four.  RankInit is round 1 of a game *)
(* of four connected players, as lobby:join (three times), game:start and  *)
(* startNewRound leave it; the players then submit words with the scores   *)
(* of RankSubmissions, or not, and the timer runs.                         *)
(***************************************************************************)
RankPlayers == <<"h", "p", "q", "r">>

RankSubmissions ==
  { [word |-> "QUARTZ", score |-> 50, isValid |-> TRUE],
    [word |-> "STORM", score |-> 30, isValid |-> TRUE],
    [word |-> "XQ", score |-> 0, isValid |-> FALSE] }

RankInit ==
  /\ \E rnd \in Rolls :
       lobby = startNewRound(
                 [createLobby(rnd.shuffle) EXCEPT
                    !.status = "playing",
                    !.players = RankPlayers,
                    !.playerSockets = Range(RankPlayers),
                    !.totalPoints = [id \in Range(RankPlayers) |-> 0],
                    !.dice = [id \in Range(RankPlayers) |-> <<>>]], rnd)
  /\ registered = TRUE
  /\ pendingStarts = 0
  /\ botTasks = EmptyBag
  /\ issuedIds = Range(RankPlayers)
  /\ events = 0
  /\ emitted = {"newRound"}
  /\ worker = WorkerIdle
  /\ sockets = NoSockets

RankNext ==
  \/ \E a \in Range(RankPlayers), data \in RankSubmissions : SubmitWord(a, data)
  \/ Tick

RankSpec == RankInit /\ [][RankNext]_vars

(***************************************************************************)
(* The scoring of bot candidates: one round of <<h, b>> under any modifier *)
(* on any community die, the oracle answering with any spelling of a word  *)
(* of the vocabulary and with ill-formed tile lists.                       *)
(***************************************************************************)
EngineShuffles ==
  { <<"S", "T", "A", "R", "E", "N", "O", "D", "L", "I", "G", "B", "U", "M">>,
    <<"Qu", "I", "T", "E", "S", "N", "O", "D", "A", "L", "R", "B", "U", "M">> }

EngineRolls ==
  [shuffle : EngineShuffles, vowel : VowelChoices, slot : SlotChoices,
   modIndex : 0..(Len(MODIFIERS) - 1), dieIndex : 0..(CommunityCount - 1)]

EnginePlayers == <<"h", "b">>

EngineInit ==
  /\ \E rnd \in EngineRolls :
       lobby = startNewRound([createLobby(rnd.shuffle) EXCEPT
                                !.status = "playing",
                                !.players = EnginePlayers], rnd)
  /\ registered = TRUE
  /\ pendingStarts = 0
  /\ botTasks = SetToBag({[bot |-> "b", attempts |-> 0]})
  /\ issuedIds = Range(EnginePlayers)
  /\ events = 0
  /\ emitted = {"newRound"}
  /\ worker = WorkerIdle
  /\ sockets = NoSockets

\* tile lists that name no tile, a tile twice, a die under two names, or a
\* die with a leading zero
IllFormed ==
  { Candidate("TIRE", <<TileId("community", 1), TileId("player", 1),
                        TileId("community", 3)>>),
    Candidate("TIRE", <<TileId("community", 1), TileId("player", 1),
                        TileId("community", 3), TileId("community", 9)>>),
    Candidate("TILE", <<TileId("community", 1), TileId("player", 1),
                        [source |-> "private", digits |-> "0"],
                        TileId("community", 4)>>),
    Candidate("ALL", <<TileId("community", 2), TileId("player", 0),
                       TileId("player", 0)>>),
    Candidate("ALL", <<TileId("community", 2), TileId("player", 0),
                       [source |-> "player", digits |-> "00"]>>),
    Candidate("LIST", <<TileId("player", 0), TileId("player", 1),
                        [source |-> "community", digits |-> "00"],
                        TileId("community", 1)>>) }

EngineResponses(l, bot) ==
  {Unparseable} \cup IllFormed
  \cup UNION { { Candidate(w, ids) : ids \in Spellings(PromptTiles(l, bot), {}, Spell(w)) } :
               w \in Vocabulary }

EngineNext ==
  \/ \E t \in BotTaskStates : BotTimeout(t)
  \/ \E t \in BotTaskStates :
       /\ BagIn(t, botTasks)
       /\ t.attempts > 0
       /\ \E outcome \in EngineResponses(lobby, t.bot) : BotOracleReturn(t, outcome)

EngineSpec == EngineInit /\ [][EngineNext]_vars

(***************************************************************************)
(* The best-word worker (public/bestWordWorker.js).  A payload carries the *)
(* community dice, the player's dice (a die is its letter, "" for a die    *)
(* without one, its points being those of the letter) and the modifier.    *)
(***************************************************************************)
Alphabet ==
  <<"A", "B", "C", "D", "E", "F", "G", "H", "I", "J", "K", "L", "M",
    "N", "O", "P", "Q", "R", "S", "T", "U", "V", "W", "X", "Y", "Z">>

CharCode(char) == CHOOSE i \in DOMAIN Alphabet : Alphabet[i] = char

\* a < b on strings of capitals, given as their characters
RECURSIVE StringLess(_, _)
StringLess(a, b) ==
  IF b = <<>> THEN FALSE
  ELSE IF a = <<>> THEN TRUE
  ELSE IF Head(a) = Head(b) THEN StringLess(Tail(a), Tail(b))
  ELSE CharCode(Head(a)) < CharCode(Head(b))

\* the entries of the dictionary Set, as characters
DictionaryEntries == { Spell(w) : w \in dictionary }

\* the string of the characters chars
StringOf(chars) == CHOOSE w \in Vocabulary : Spell(w) = chars

\* computeBestWord: the tiles array, in the order of the two forEach
RECURSIVE TilesFrom(_, _, _)
TilesFrom(dice, source, i) ==
  IF i > Len(dice) THEN <<>>
  ELSE (IF dice[i] = NoDie THEN <<>>
        ELSE <<[letter |-> dice[i], source |-> source, index |-> i - 1]>>)
       \o TilesFrom(dice, source, i + 1)

WorkerTiles(payload) ==
  TilesFrom(payload.communityDice, "community", 1) \o TilesFrom(payload.playerDice, "player", 1)

\* scoreSequence(sequence, modifier)
scoreSequence(sequence, modifier) ==
  IF modifier = NoModifier \/ sequence = <<>> THEN 0
  ELSE
    LET mod == ModifierOf(modifier)
        isModifierTile(k) ==
          sequence[k].source = "community" /\ sequence[k].index = modifier.dieIndex
        letters == [k \in DOMAIN sequence |-> sequence[k].letter]
        modifierTileIndex ==
          IF \E k \in DOMAIN sequence : isModifierTile(k)
          THEN (CHOOSE k \in DOMAIN sequence :
                  isModifierTile(k) /\ \A j \in 1..(k - 1) : ~isModifierTile(j)) - 1
          ELSE -1
        modifierSelected == modifierTileIndex >= 0
        letterCount == SumLengths(letters)
        modifierLetterPos == SumLengths(SubSeq(letters, 1, modifierTileIndex))
        modTileLen == LetterLength(letters[modifierTileIndex + 1])
        tileContainsLetterPos(targetPos) ==
          targetPos >= modifierLetterPos /\ targetPos < modifierLetterPos + modTileLen
        vowelCount == VowelCount(Flatten(letters))
        consonantCount == letterCount - vowelCount
        both == [applies |-> TRUE, multiplier |-> mod.multiplier, bonus |-> mod.bonus]
        flat == [applies |-> TRUE, multiplier |-> 1, bonus |-> mod.bonus]
        effect ==
          IF ~modifierSelected THEN NoEffect
          ELSE CASE mod.type = "multiply" ->
                      [applies |-> TRUE, multiplier |-> mod.multiplier, bonus |-> 0]
                 [] mod.type = "position" ->
                      IF \/ mod.position = "start" /\ modifierLetterPos = 0
                         \/ mod.position = "end" /\ modifierLetterPos + modTileLen = letterCount
                         \/ mod.position = "middle" /\ modifierLetterPos > 0
                              /\ modifierLetterPos + modTileLen < letterCount
                         \/ mod.position = "second" /\ tileContainsLetterPos(1)
                         \/ mod.position = "penultimate" /\ tileContainsLetterPos(letterCount - 2)
                              /\ letterCount >= 2
                         \/ mod.position = "center" /\ letterCount % 2 = 1
                              /\ tileContainsLetterPos(letterCount \div 2)
                         \/ mod.position = "centerAny"
                              /\ \/ tileContainsLetterPos((letterCount - 1) \div 2)
                                 \/ tileContainsLetterPos(letterCount \div 2)
                      THEN both ELSE NoEffect
                 [] mod.type = "length" ->
                      IF \/ mod.minLength # 0 /\ letterCount >= mod.minLength
                         \/ mod.exactLength # 0 /\ letterCount = mod.exactLength
                         \/ mod.maxLength # 0 /\ letterCount <= mod.maxLength
                      THEN both ELSE NoEffect
                 [] mod.type = "parity" ->
                      IF \/ mod.parity = "odd" /\ letterCount % 2 = 1
                         \/ mod.parity = "even" /\ letterCount % 2 # 1
                      THEN flat ELSE NoEffect
                 [] mod.type = "neighbor" ->
                      LET prevEndsWithVowel ==
                            /\ modifierTileIndex > 0
                            /\ IsVowel(Chars(letters[modifierTileIndex])
                                         [LetterLength(letters[modifierTileIndex])])
                          nextStartsWithVowel ==
                            /\ modifierTileIndex < Len(sequence) - 1
                            /\ IsVowel(Chars(letters[modifierTileIndex + 2])[1])
                      IN IF prevEndsWithVowel \/ nextStartsWithVowel
                         THEN [applies |-> TRUE, multiplier |-> mod.multiplier, bonus |-> 0]
                         ELSE NoEffect
                 [] mod.type = "composition" ->
                      IF \/ mod.compositionType = "balanced" /\ vowelCount = consonantCount
                         \/ mod.compositionType = "vowelRich" /\ vowelCount > consonantCount
                         \/ mod.compositionType = "vowelCount" /\ vowelCount >= mod.minVowels
                         \/ mod.compositionType = "consonantCount"
                              /\ consonantCount >= mod.minConsonants
                      THEN flat ELSE NoEffect
                 [] mod.type = "bonus" -> flat
                 [] OTHER -> NoEffect
        modified == IF effect.applies /\ effect.multiplier > 1
                    THEN { k \in DOMAIN sequence : isModifierTile(k) } ELSE {}
    IN SumPoints(letters, modified, effect.multiplier) + effect.bonus

NoBest == [bestWord |-> <<>>, bestScore |-> 0, bestLength |-> 0]

\* a search that keeps the first word of the best score
better_FirstFound(best, score, chars) == score > best.bestScore \/ best.bestWord = <<>>

\* the test that replaces bestWord, bestScore and bestLength
better(best, score, chars) ==
  \/ score > best.bestScore
  \/ score = best.bestScore /\ Len(chars) > best.bestLength
  \/ /\ score = best.bestScore
     /\ Len(chars) = best.bestLength
     /\ (best.bestWord = <<>> \/ StringLess(chars, best.bestWord))

\* a search that takes words spelled with community tiles alone
usedPlayerTile_Always(tiles, sequence) == TRUE

\* usedPlayerTile || tile.source === 'player', over the tiles of sequence
usedPlayerTile(tiles, sequence) ==
  \E k \in DOMAIN sequence : tiles[sequence[k]].source = "player"

\* dfs: the for loop from tile i on, sequence holding the tiles in use; the
\* words it tests against bestScore, bestLength and bestWord, in its order
RECURSIVE dfs(_, _, _, _)
dfs(tiles, modifier, sequence, i) ==
  IF i > Len(tiles) THEN <<>>
  ELSE IF \E k \in DOMAIN sequence : sequence[k] = i
  THEN dfs(tiles, modifier, sequence, i + 1)
  ELSE
    LET next == Append(sequence, i)
        nextWordUpper == Flatten([k \in DOMAIN next |-> tiles[next[k]].letter])
        nextUsedPlayerTile == usedPlayerTile(tiles, next)
        here ==
          IF /\ nextUsedPlayerTile
             /\ Len(nextWordUpper) >= 2
             /\ nextWordUpper \in DictionaryEntries
          THEN <<[word |-> nextWordUpper,
                  score |-> scoreSequence([k \in DOMAIN next |-> tiles[next[k]]], modifier)]>>
          ELSE <<>>
        deeper == IF Len(next) < Len(tiles) THEN dfs(tiles, modifier, next, 1) ELSE <<>>
    IN here \o deeper \o dfs(tiles, modifier, sequence, i + 1)

\* bestWord, bestScore, bestLength after the tests of the words of found
RECURSIVE keepBest(_, _)
keepBest(found, best) ==
  IF found = <<>> THEN best
  ELSE keepBest(Tail(found),
                IF better(best, Head(found).score, Head(found).word)
                THEN [bestWord |-> Head(found).word, bestScore |-> Head(found).score,
                      bestLength |-> Len(Head(found).word)]
                ELSE best)

\* computeBestWord(payload)
computeBestWord(payload) ==
  LET best == keepBest(dfs(WorkerTiles(payload), payload.modifier, <<>>, 1), NoBest)
  IN [bestWord |-> IF best.bestWord = <<>> THEN NoWord ELSE StringOf(best.bestWord),
      bestScore |-> best.bestScore]

(***************************************************************************)
(* The worker on its own: a computeBest message with any of the payloads   *)
(* below is in its queue, and onmessage answers it.                        *)
(***************************************************************************)
WorkerCommunityLists ==
  { <<"S", "T", "A", "E", "R">>, <<"Qu", "I", "T", "E", "S">>, <<"S", "", "A", "E", "T">> }

WorkerPlayerLists ==
  { <<"L", "I", "G">>, <<"A", "L", "R">>, <<"X", "Z", "J">> }

WorkerModifiers ==
  {NoModifier}
  \cup [index : 0..(Len(MODIFIERS) - 1), dieIndex : 0..(WorkerCommunityDice - 1)]

WorkerPayloads ==
  { [communityDice |-> SubSeq(c, 1, Min(WorkerCommunityDice, Len(c))),
     playerDice |-> SubSeq(p, 1, Min(WorkerPlayerDice, Len(p))),
     modifier |-> m] :
      c \in WorkerCommunityLists, p \in WorkerPlayerLists, m \in WorkerModifiers }

WorkerInit ==
  /\ \E shuffle \in Shuffles : lobby = createLobby(shuffle)
  /\ registered = TRUE
  /\ pendingStarts = 0
  /\ botTasks = EmptyBag
  /\ issuedIds = {HostId}
  /\ events = 0
  /\ emitted = {}
  /\ \E payload \in WorkerPayloads : worker = [payload |-> payload, posted |-> NoMessage]
  /\ sockets = NoSockets

\* self.onmessage, for a message of type computeBest
OnMessage ==
  /\ worker.payload # NoPayload
  /\ LET result == computeBestWord(worker.payload)
     IN worker' = [worker EXCEPT !.posted = [type |-> "bestWordResult",
                                             bestWord |-> result.bestWord,
                                             bestScore |-> result.bestScore]]
  /\ UNCHANGED <<lobby, registered, pendingStarts, botTasks, issuedIds, events, emitted, sockets>>

WorkerNext == OnMessage

WorkerSpec == WorkerInit /\ [][WorkerNext]_vars

(***************************************************************************)
\* a round is active: its timer runs and it is not revealed
Active == registered /\ lobby.status = "playing" /\ lobby.roundNumber >= 1 /\ ~lobby.revealed

\* the result of player id in a roundHistory entry (the entry has one)
ResultOf(entry, id) ==
  entry.results[CHOOSE i \in DOMAIN entry.results : entry.results[i].visibleId = id]

HasResult(entry, id) == \E i \in DOMAIN entry.results : entry.results[i].visibleId = id

\* the placement points a roundHistory entry gives to player id
EarnedIn(entry, id) == IF HasResult(entry, id) THEN ResultOf(entry, id).pointsEarned ELSE 0

LastEntry(l) == l.roundHistory[Len(l.roundHistory)]

\* this step is a reveal
RevealStep == ~lobby.revealed /\ lobby'.revealed

(***************************************************************************)
(* C1.  Reveal is idempotent per round.  roundHistory grows, and any       *)
(* totalPoints grows, only on a step that takes the lobby from not         *)
(* revealed to revealed; such a step appends exactly one entry and adds to *)
(* each player's totalPoints exactly the pointsEarned of that entry.  So   *)
(* while the round stays revealed no trigger adds an entry or points.      *)
(***************************************************************************)
C1_RevealOnce ==
  [][ /\ Len(lobby'.roundHistory) > Len(lobby.roundHistory)
         => /\ RevealStep
            /\ Len(lobby'.roundHistory) = Len(lobby.roundHistory) + 1
            /\ LastEntry(lobby').roundNumber = lobby.roundNumber
      /\ (\E id \in Ids : lobby'.totalPoints[id] > lobby.totalPoints[id])
         => /\ RevealStep
            /\ Len(lobby'.roundHistory) = Len(lobby.roundHistory) + 1
      /\ RevealStep
         => /\ Len(lobby'.roundHistory) = Len(lobby.roundHistory) + 1
            /\ \A id \in Ids :
                 lobby'.totalPoints[id]
                   = lobby.totalPoints[id] + EarnedIn(LastEntry(lobby'), id)
    ]_vars

\* a submission was turned away after the reveal of round 1, which gave points
C1_Witness ==
  /\ lobby.revealed
  /\ lobby.roundNumber = 1
  /\ "submitError" \in emitted
  /\ Len(lobby.roundHistory) = 1
  /\ \E id \in Ids : lobby.totalPoints[id] = 3

(***************************************************************************)
(* C2.  Within one round the timer is halved at most once: once a          *)
(* submission is stored in the active round, no later step halves          *)
(* timerRemaining or emits game:timerHalved.                               *)
(***************************************************************************)
C2_HalvedOncePerRound ==
  [][ (Active /\ lobby.playerSubmissions # <<>>)
        => /\ "timerHalved" \notin emitted'
           /\ lobby'.timerRemaining >= lobby.timerRemaining - 1
    ]_vars

(***************************************************************************)
(* C3.  A player:submitWord of a player who already has a submission in    *)
(* the unrevealed round replaces that entry in place (one entry per        *)
(* player, holding the latest word, score and validity), leaves            *)
(* timerRemaining as it was and emits no game:timerHalved.                 *)
(***************************************************************************)
C3_ResubmissionOverwrites ==
  [][ \A a \in Ids, data \in Submissions :
        (SubmitWord(a, data) /\ ~lobby.revealed /\ HasSubmission(lobby, a))
          => /\ lobby'.timerRemaining = lobby.timerRemaining
             /\ "timerHalved" \notin emitted'
             /\ "submitConfirmed" \in emitted'
             /\ Len(lobby'.playerSubmissions) = Len(lobby.playerSubmissions)
             /\ \A i \in DOMAIN lobby.playerSubmissions :
                  IF lobby.playerSubmissions[i].visibleId = a
                  THEN lobby'.playerSubmissions[i] =
                         [visibleId |-> a, word |-> data.word, score |-> data.score,
                          isValid |-> data.isValid]
                  ELSE lobby'.playerSubmissions[i] = lobby.playerSubmissions[i]
    ]_vars

\* the host has replaced CAT by DOGS in round 1 while p has yet to submit;
\* the first submission had halved the 30 s, the second left the 15 s alone
C3_Witness ==
  /\ Active
  /\ lobby.players = <<"h", "p">>
  /\ lobby.playerSubmissions = << [visibleId |-> "h", word |-> "DOGS", score |-> 7, isValid |-> TRUE] >>
  /\ lobby.timerRemaining = 15
  /\ emitted = {"submitConfirmed"}
  /\ events = 4

(***************************************************************************)
(* C4.  The first submission recorded in an active round, with r seconds   *)
(* remaining.                                                              *)
(***************************************************************************)
\* this step records the first submission of the active round
FirstRecorded ==
  Active /\ lobby.playerSubmissions = <<>> /\ Len(lobby'.playerSubmissions) = 1

\* As claimed: timerRemaining becomes max(10, floor(r/2)) if r > 10 and
\* stays r otherwise.
C4_FirstSubmissionHalves ==
  [][ FirstRecorded
        => lobby'.timerRemaining =
             IF lobby.timerRemaining > 10
             THEN Max(10, lobby.timerRemaining \div 2)
             ELSE lobby.timerRemaining
    ]_vars

\* C4, amended: that holds when other players have yet to submit; a first
\* submission that completes the set (a lobby of one player) leaves
\* timerRemaining at r and reveals.  The step never raises the remaining
\* time, and a changed time is never below 10.
C4_FirstSubmissionHalvesUnlessLast ==
  [][ FirstRecorded
        => LET r == lobby.timerRemaining
           IN /\ Len(lobby.players) > 1
                   => lobby'.timerRemaining = IF r > 10 THEN Max(10, r \div 2) ELSE r
              /\ Len(lobby.players) = 1
                   => lobby'.timerRemaining = r /\ lobby'.revealed
              /\ lobby'.timerRemaining <= r
              /\ lobby'.timerRemaining # r => lobby'.timerRemaining >= 10
    ]_vars

\* 29 s were left when the first submission of round 1 came in: 14 are left
C4_Witness ==
  /\ Active
  /\ Len(lobby.playerSubmissions) = 1
  /\ "timerHalved" \in emitted
  /\ lobby.timerRemaining = 14

(***************************************************************************)
(* The lobby without AI players, under a timer that is never starved:      *)
(* setInterval keeps firing while the interval is armed.                   *)
(***************************************************************************)
FairSpec == Init /\ [][HumanNext]_vars /\ WF_vars(Tick)

RoundDropped ==
  \/ lobby'.status # "playing"
  \/ lobby'.roundNumber = 0
  \/ pendingStarts' < pendingStarts
  \/ ~registered'

C6_EarlyRevealNeedsAll ==
  [][ (Active /\ RevealStep /\ lobby'.timerRemaining > 0)
        => \A id \in Range(lobby'.players) : HasSubmission(lobby', id)
    ]_vars

\* p submitted in round 1, lost its socket and was removed; the bot's
\* submission then ended the round although the host had not submitted
C6_Witness ==
  /\ lobby.status = "playing"
  /\ lobby.roundNumber = 1
  /\ lobby.revealed
  /\ lobby.timerRemaining > 0
  /\ lobby.players = <<"h", "b">>
  /\ HasSubmission(lobby, "p")
  /\ HasSubmission(lobby, "b")
  /\ ~HasSubmission(lobby, "h")
  /\ "roundResults" \in emitted

(***************************************************************************)
(* C7.  Submissions against the reveal.                                    *)
(***************************************************************************)
\* the entry of the submission map shows up in the roundHistory entry
InResults(entry, sub) ==
  /\ HasResult(entry, sub.visibleId)
  /\ ResultOf(entry, sub.visibleId).word = sub.word
  /\ ResultOf(entry, sub.visibleId).score = sub.score
  /\ ~ResultOf(entry, sub.visibleId).noSubmission
  /\ ResultOf(entry, sub.visibleId).isInvalid = ~sub.isValid

\* As claimed: every submission the map holds at the reveal of an active
\* round is in the results of the round.
C7_NoSubmissionDropped ==
  [][ (Active /\ RevealStep)
        => \A i \in DOMAIN lobby'.playerSubmissions :
             InResults(LastEntry(lobby'), lobby'.playerSubmissions[i])
    ]_vars

\* C7, amended: a player:submitWord handled before the reveal is confirmed
\* and stored; at the reveal every stored submission of a player still in
\* the players Map is in the results with its word, score and validity;
\* a player:submitWord handled after the reveal gets player:submitError
\* only and changes nothing.
C7_SubmissionRecordedOrRejected ==
  [][ /\ \A a \in Ids, data \in Submissions :
           (SubmitWord(a, data) /\ ~lobby.revealed)
             => /\ "submitConfirmed" \in emitted'
                /\ "submitError" \notin emitted'
                /\ HasSubmission(lobby', a)
                /\ SubmissionOf(lobby', a) =
                     [visibleId |-> a, word |-> data.word, score |-> data.score,
                      isValid |-> data.isValid]
      /\ \A a \in Ids, data \in Submissions :
           (SubmitWord(a, data) /\ lobby.revealed)
             => /\ emitted' = {"submitError"}
                /\ lobby' = lobby
      /\ RevealStep
           => \A i \in DOMAIN lobby'.playerSubmissions :
                lobby'.playerSubmissions[i].visibleId \in Range(lobby'.players)
                  => InResults(LastEntry(lobby'), lobby'.playerSubmissions[i])
    ]_vars

\* p's submission completed the set of round 1 and is in the results; the
\* submission the host sends after it is turned away
C7_Witness ==
  /\ lobby.status = "playing"
  /\ lobby.roundNumber = 1
  /\ lobby.revealed
  /\ lobby.timerRemaining > 0
  /\ emitted = {"submitError"}
  /\ lobby.players = <<"h", "p">>
  /\ Len(lobby.playerSubmissions) = 2
  /\ \A i \in DOMAIN lobby.playerSubmissions :
       InResults(LastEntry(lobby), lobby.playerSubmissions[i])

(***************************************************************************)
(* C8.  game:nextRound takes effect only when sent by the host while       *)
(* status is playing, revealed is true and roundNumber < totalRounds.      *)
(* Then roundNumber grows by 1, every player holds 3 tiles of the deck     *)
(* with a vowel among them, 5 community dice and a modifier are drawn,     *)
(* the submission map is empty, revealed is false and the countdown runs   *)
(* from settings.timerDuration.  Otherwise the lobby is unchanged.         *)
(***************************************************************************)
NextRoundAllowed(a) ==
  /\ IsHostSocket(a)
  /\ lobby.status = "playing"
  /\ lobby.revealed
  /\ lobby.roundNumber < lobby.settings.totalRounds

DeckTiles == UNION {Range(sh) : sh \in Shuffles} \cup Vowels

C8_NextRound ==
  [][ \A a \in Ids :
        NextRound(a)
          => IF NextRoundAllowed(a)
             THEN /\ lobby'.roundNumber = lobby.roundNumber + 1
                  /\ \A id \in Range(lobby.players) :
                       /\ Len(lobby'.dice[id]) = 3
                       /\ Range(lobby'.dice[id]) \subseteq DeckTiles
                       /\ Range(lobby'.dice[id]) \cap Vowels # {}
                  /\ Len(lobby'.communityDice) = CommunityCount
                  /\ Range(lobby'.communityDice) \cap Vowels # {}
                  /\ lobby'.modifier # NoModifier
                  /\ lobby'.playerSubmissions = <<>>
                  /\ ~lobby'.revealed
                  /\ lobby'.timerRemaining = lobby.settings.timerDuration
                  /\ lobby'.timerInterval
                  /\ lobby'.players = lobby.players
                  /\ lobby'.status = "playing"
                  /\ lobby'.totalPoints = lobby.totalPoints
                  /\ lobby'.roundHistory = lobby.roundHistory
             ELSE lobby' = lobby
    ]_vars

\* round 2 has just been started by game:nextRound
C8_Witness ==
  /\ lobby.status = "playing"
  /\ lobby.roundNumber = 2
  /\ emitted = {"newRound"}
  /\ Len(lobby.roundHistory) = 1
  /\ lobby.playerSubmissions = <<>>
  /\ ~lobby.revealed
  /\ lobby.timerRemaining = TimerDuration

C10_FirstRoundStartsFromZero ==
  [][ (pendingStarts' < pendingStarts /\ lobby.status = "playing")
        => /\ lobby'.roundNumber = 1
           /\ \A id \in Range(lobby'.players) : lobby'.totalPoints[id] = 0
    ]_vars

(***************************************************************************)
(* C11.  game:start has an effect only while status is waiting: handled    *)
(* in another status it leaves roundNumber, totalPoints, the submissions,  *)
(* the timer and roundHistory as they were and schedules no round start.   *)
(***************************************************************************)
C11_StartOnlyWhileWaiting ==
  [][ \A a \in Ids :
        (GameStart(a) /\ lobby.status # "waiting")
          => /\ lobby'.roundNumber = lobby.roundNumber
             /\ lobby'.totalPoints = lobby.totalPoints
             /\ lobby'.playerSubmissions = lobby.playerSubmissions
             /\ lobby'.timerRemaining = lobby.timerRemaining
             /\ lobby'.timerInterval = lobby.timerInterval
             /\ lobby'.roundHistory = lobby.roundHistory
             /\ pendingStarts' = pendingStarts
    ]_vars

\* a second game:start came during the delay of the first: two round starts
\* are pending
C11_Witness ==
  /\ lobby.status = "playing"
  /\ lobby.roundNumber = 0
  /\ pendingStarts = 2
  /\ emitted = {"gameStarting"}

(***************************************************************************)
(* C12.  lobby:updateSettings takes effect only when sent by the host      *)
(* while status is waiting: in another status, and from another player,    *)
(* it leaves totalRounds and timerDuration as they were.                   *)
(***************************************************************************)
C12_SettingsOnlyWhileWaiting ==
  [][ \A a \in Ids, data \in SettingsData :
        (UpdateSettings(a, data) /\ ~(a \in lobby.isHost /\ lobby.status = "waiting"))
          => lobby'.settings = lobby.settings
    ]_vars

\* the host has raised totalRounds to 4 while round 1 is running
C12_Witness ==
  /\ Active
  /\ lobby.roundNumber = 1
  /\ lobby.settings.totalRounds = 4
  /\ emitted = {"settingsUpdated"}

(***************************************************************************)
(* C13.  game:endEarly (from playing) and game:playAgain (from finished)   *)
(* take effect only for the host; afterwards status is waiting,            *)
(* roundNumber 0, roundHistory and the submission map empty, revealed      *)
(* false, every player at 0 totalPoints without dice, the players and the  *)
(* host as before.  A request that does not take effect changes nothing.   *)
(***************************************************************************)
IsFullReset ==
  /\ lobby'.status = "waiting"
  /\ lobby'.roundNumber = 0
  /\ lobby'.roundHistory = <<>>
  /\ lobby'.playerSubmissions = <<>>
  /\ ~lobby'.revealed
  /\ \A id \in Range(lobby'.players) :
       lobby'.totalPoints[id] = 0 /\ lobby'.dice[id] = <<>>
  /\ lobby'.players = lobby.players
  /\ lobby'.isHost = lobby.isHost
  /\ lobby'.playerSockets = lobby.playerSockets
  /\ lobby'.settings = lobby.settings

C13_FullReset ==
  [][ \A a \in Ids :
        /\ EndEarly(a)
             => IF a \in lobby.isHost /\ lobby.status = "playing"
                THEN IsFullReset ELSE lobby' = lobby
        /\ PlayAgain(a)
             => IF a \in lobby.isHost /\ lobby.status = "finished"
                THEN IsFullReset ELSE lobby' = lobby
    ]_vars

\* the host has reset a lobby of two players
C13_Witness ==
  /\ lobby.status = "waiting"
  /\ emitted = {"returnToLobby"}
  /\ lobby.players = <<"h", "p">>
  /\ lobby.isHost = {"h"}
  /\ lobby.roundHistory = <<>>
  /\ lobby.letterDeck # <<>>
  /\ events = 5

(***************************************************************************)
(* C14.  totalPoints accumulates only while status is playing: from a      *)
(* state with status waiting or finished no step (submission, timer tick,  *)
(* bot task, reveal) increases a player's totalPoints.                     *)
(***************************************************************************)
C14_PointsOnlyWhilePlaying ==
  [][ (registered /\ lobby.status \in {"waiting", "finished"})
        => \A id \in Range(lobby.players) :
             lobby'.totalPoints[id] <= lobby.totalPoints[id] ]_vars

\* a round revealed in a finished session has paid placement points
C14_Witness ==
  /\ registered
  /\ lobby.status = "finished"
  /\ lobby.revealed
  /\ emitted = {"roundResults"}
  /\ \E id \in Range(lobby.players) : lobby.totalPoints[id] > 0

(***************************************************************************)
(* C15.  The ranker uses competition ranking over the valid submissions of *)
(* the round: the place of a valid submission is 1 + the number of valid   *)
(* submissions with a strictly higher score (ties share a place), and it   *)
(* earns 3 points for place 1, 2 for place 2, 1 for place 3, 0 otherwise.  *)
(***************************************************************************)
\* the valid submissions of current players in lobby l, as indices of the map
ValidSubmissions(l) ==
  { i \in DOMAIN l.playerSubmissions :
      /\ l.playerSubmissions[i].isValid
      /\ l.playerSubmissions[i].visibleId \in Range(l.players) }

C15_CompetitionRanking ==
  [][ RevealStep =>
        LET subs  == lobby'.playerSubmissions
            valid == ValidSubmissions(lobby')
            entry == LastEntry(lobby')
        IN \A i \in valid :
             /\ HasResult(entry, subs[i].visibleId)
             /\ LET r == ResultOf(entry, subs[i].visibleId)
                IN /\ r.place = 1 + Cardinality({ j \in valid : subs[j].score > subs[i].score })
                   /\ r.pointsEarned = (IF r.place = 1 THEN 3
                                        ELSE IF r.place = 2 THEN 2
                                        ELSE IF r.place = 3 THEN 1 ELSE 0)
    ]_vars

\* four valid submissions ranked 1, 1, 1 and 4, the fourth place earning nothing
C15_Witness ==
  /\ lobby.revealed
  /\ lobby.roundHistory # <<>>
  /\ LET res == LastEntry(lobby).results
     IN /\ Cardinality({ i \in DOMAIN res : res[i].place = 1 /\ res[i].pointsEarned = 3 }) = 3
        /\ \E i \in DOMAIN res : res[i].place = 4 /\ res[i].pointsEarned = 0

(***************************************************************************)
(* C16.  A round of four players with valid submissions scoring 50, 50 and *)
(* 30 and a fourth player without submission.  As claimed: the places are  *)
(* 1, 1, 2 and the points 3, 3, 1; the fourth player has place null and 0  *)
(* points.  As the ranker computes it: the places are 1, 1, 3 (competition *)
(* ranking) and the points 3, 3, 1.                                        *)
(***************************************************************************)
FiftyFiftyThirty(l) ==
  /\ Len(l.players) = 4
  /\ Len(l.playerSubmissions) = 3
  /\ \A i \in DOMAIN l.playerSubmissions : l.playerSubmissions[i].isValid
  /\ Cardinality({ i \in DOMAIN l.playerSubmissions : l.playerSubmissions[i].score = 50 }) = 2
  /\ Cardinality({ i \in DOMAIN l.playerSubmissions : l.playerSubmissions[i].score = 30 }) = 1

\* the results of the example, with the place given to the score of 30
ExampleResults(res, thirdPlace) ==
  /\ Len(res) = 4
  /\ <<res[1].score, res[2].score, res[3].score>> = <<50, 50, 30>>
  /\ <<res[1].place, res[2].place, res[3].place>> = <<1, 1, thirdPlace>>
  /\ <<res[1].pointsEarned, res[2].pointsEarned, res[3].pointsEarned>> = <<3, 3, 1>>
  /\ res[4].place = NullPlace
  /\ res[4].pointsEarned = 0
  /\ res[4].noSubmission

\* As claimed.
C16_ExamplePlaces112 ==
  [][ (RevealStep /\ FiftyFiftyThirty(lobby'))
        => ExampleResults(LastEntry(lobby').results, 2) ]_vars

\* Amended: the score of 30 is in place 3.
C16_ExamplePlaces113 ==
  [][ (RevealStep /\ FiftyFiftyThirty(lobby'))
        => /\ ExampleResults(LastEntry(lobby').results, 3)
           /\ \A id \in Range(lobby'.players) :
                ~HasSubmission(lobby', id)
                  => /\ ResultOf(LastEntry(lobby'), id).place = NullPlace
                     /\ lobby'.totalPoints[id] = lobby.totalPoints[id] ]_vars

\* the timer has revealed the round of the example
C16_Witness ==
  /\ lobby.revealed
  /\ FiftyFiftyThirty(lobby)
  /\ emitted = {"roundResults"}
  /\ lobby.roundHistory # <<>>

(***************************************************************************)
(* C17.  Invalid and missing submissions are left out of the ranking but   *)
(* reported: every current player is in the round results exactly once; a  *)
(* player with an invalid submission has place null, 0 points and          *)
(* isInvalid; a player without submission has place null, 0 points and     *)
(* noSubmission; neither changes that player's totalPoints nor the place   *)
(* of any other player.                                                    *)
(***************************************************************************)
\* lobby l without the players that have no valid submission
RankedOnly(l) ==
  [l EXCEPT !.players = SelectSeq(l.players,
                LAMBDA id : \E i \in ValidSubmissions(l) : l.playerSubmissions[i].visibleId = id),
            !.playerSubmissions = SelectSeq(l.playerSubmissions, LAMBDA sub : sub.isValid)]

C17_UnrankedReported ==
  [][ RevealStep =>
        LET entry == LastEntry(lobby')
            res   == entry.results
            alone == placementResults(RankedOnly(lobby'))
        IN /\ \A id \in Range(lobby'.players) :
                Cardinality({ i \in DOMAIN res : res[i].visibleId = id }) = 1
           /\ \A id \in Range(lobby'.players) :
                /\ (\E i \in DOMAIN lobby'.playerSubmissions :
                        /\ lobby'.playerSubmissions[i].visibleId = id
                        /\ ~lobby'.playerSubmissions[i].isValid)
                     => /\ ResultOf(entry, id).place = NullPlace
                        /\ ResultOf(entry, id).pointsEarned = 0
                        /\ ResultOf(entry, id).isInvalid
                        /\ ~ResultOf(entry, id).noSubmission
                        /\ lobby'.totalPoints[id] = lobby.totalPoints[id]
                /\ ~(\E i \in DOMAIN lobby'.playerSubmissions :
                        lobby'.playerSubmissions[i].visibleId = id)
                     => /\ ResultOf(entry, id).place = NullPlace
                        /\ ResultOf(entry, id).pointsEarned = 0
                        /\ ResultOf(entry, id).noSubmission
                        /\ ~ResultOf(entry, id).isInvalid
                        /\ lobby'.totalPoints[id] = lobby.totalPoints[id]
           /\ \A i \in DOMAIN alone :
                ResultOf(entry, alone[i].visibleId).place = alone[i].place
    ]_vars

\* a round reported with a winner, an invalid word and a missing submission
C17_Witness ==
  /\ lobby.revealed
  /\ lobby.roundHistory # <<>>
  /\ LET res == LastEntry(lobby).results
     IN /\ \E i \in DOMAIN res : res[i].isInvalid /\ res[i].place = NullPlace
        /\ \E i \in DOMAIN res : res[i].noSubmission /\ res[i].place = NullPlace
        /\ \E i \in DOMAIN res : res[i].place = 2 /\ res[i].pointsEarned = 2

(***************************************************************************)
(* C18.  A player who disconnects and rejoins with the existing id before  *)
(* the 2-minute removal timer fires is still in the player map, with the   *)
(* same totalPoints, dice, host flag and recorded submission, in any       *)
(* status.  The disconnect itself removes only the connection mapping and  *)
(* sets disconnectedAt (it arms the timers); the rejoin changes none of    *)
(* the player's data; and while the removal timer of the player is pending *)
(* no timer armed by a disconnect changes the player's data.               *)
(***************************************************************************)
\* the fields a disconnect or rejoin of a socket may touch
ConnectionFields ==
  {"playerSockets", "disconnectedAt", "removeTimeout", "hostTransferTimeout", "deleteTimeout"}

\* the step leaves every other field of the lobby alone
OnlyConnectionChanged ==
  \A f \in DOMAIN lobby : f \notin ConnectionFields => lobby'[f] = lobby[f]

\* player a keeps the place in the map, the points, the dice and the submission
KeepsData(a) ==
  /\ a \in Range(lobby'.players)
  /\ lobby'.totalPoints[a] = lobby.totalPoints[a]
  /\ lobby'.dice[a] = lobby.dice[a]
  /\ HasSubmission(lobby', a) = HasSubmission(lobby, a)
  /\ HasSubmission(lobby, a) => SubmissionOf(lobby', a) = SubmissionOf(lobby, a)

KeepsHostFlag(a) == (a \in lobby'.isHost) = (a \in lobby.isHost)

\* a timer armed by a disconnect fires, other than the removal timer of a
DisconnectTimerStep(a) ==
  \/ \E b \in Ids : HostTransferTimeout(b)
  \/ \E b \in Ids \ {a} : RemoveTimeout(b)
  \/ DeleteTimeout

\* a is disconnected and its removal timer has not fired
AwaitingRemoval(a) ==
  /\ registered
  /\ a \in Range(lobby.players)
  /\ a \notin lobby.playerSockets
  /\ a \in lobby.removeTimeout

DisconnectAndRejoinKeep(a) ==
  /\ Disconnect(a)
       => /\ OnlyConnectionChanged
          /\ lobby'.playerSockets = lobby.playerSockets \ {a}
          /\ a \in lobby'.disconnectedAt
          /\ a \in lobby'.removeTimeout
  /\ Rejoin(a)
       => /\ OnlyConnectionChanged
          /\ KeepsData(a)
          /\ KeepsHostFlag(a)
          /\ a \in lobby'.playerSockets
          /\ a \notin lobby'.removeTimeout

\* As claimed: the host flag is kept as well.
C18_RejoinKeepsAll ==
  [][ \A a \in HumanIds :
        /\ DisconnectAndRejoinKeep(a)
        /\ (AwaitingRemoval(a) /\ DisconnectTimerStep(a))
             => KeepsData(a) /\ KeepsHostFlag(a) ]_vars

\* Amended: the host flag is kept unless the host transfer timer of the
\* player, armed by a disconnect in status waiting, has passed it on.
C18_RejoinKeepsData ==
  [][ \A a \in HumanIds :
        /\ DisconnectAndRejoinKeep(a)
        /\ (AwaitingRemoval(a) /\ DisconnectTimerStep(a))
             => /\ KeepsData(a)
                /\ KeepsHostFlag(a)
                     \/ /\ HostTransferTimeout(a)
                        /\ a \in lobby.isHost
                        /\ a \notin lobby'.isHost
                        /\ \E b \in lobby.playerSockets \ {a} : lobby'.isHost = {b} ]_vars

\* the first host is connected again, in the map, and no longer host
C18_Witness ==
  /\ registered
  /\ HostId \in Range(lobby.players)
  /\ HostId \in lobby.playerSockets
  /\ HostId \notin lobby.disconnectedAt
  /\ HostId \notin lobby.isHost
  /\ lobby.isHost = {"p"}

(***************************************************************************)
(* C19.  A player, host or not, who stays disconnected for 2 minutes is    *)
(* removed from the player map when the removal timer fires; if that       *)
(* leaves the map empty the session is deleted from the registry at once   *)
(* and its round timer stopped.  A player who rejoined before is not       *)
(* removed by the timer: the rejoin cancels it.                            *)
(***************************************************************************)
C19_RemovalTimer ==
  [][ \A a \in Ids :
        /\ RemoveTimeout(a)
             => IF registered /\ a \notin lobby.playerSockets
                THEN /\ a \notin Range(lobby'.players)
                     /\ Range(lobby'.players) = Range(lobby.players) \ {a}
                     /\ IF lobby'.players = <<>>
                        THEN ~registered' /\ ~lobby'.timerInterval
                        ELSE registered'
                ELSE /\ lobby'.players = lobby.players
                     /\ registered' = registered
        /\ Rejoin(a) => a \notin lobby'.removeTimeout
        /\ (registered' /\ a \in lobby'.removeTimeout)
             => /\ a \notin lobby'.playerSockets
                /\ a \in Range(lobby'.players)
        /\ (registered' /\ a \in HumanIds /\ a \in Range(lobby'.players)
              /\ a \notin lobby'.playerSockets)
             => a \in lobby'.removeTimeout
    ]_vars

\* the last player of a running round has been removed: session deleted
C19_Witness ==
  /\ ~registered
  /\ lobby.players = <<>>
  /\ lobby.status = "playing"
  /\ lobby.roundNumber = 1
  /\ ~lobby.revealed
  /\ ~lobby.timerInterval
  /\ lobby.timerRemaining > 0

(***************************************************************************)
(* C20.  Host migration.  A host who disconnects while status is waiting   *)
(* arms a 30-second timer; when it fires with the host still away, host    *)
(* status moves to the first other connected player in insertion order,    *)
(* and to nobody if no other player is connected; a rejoin before that     *)
(* cancels it, and nothing else moves host status.  A sole host who never  *)
(* returns leaves a session that is eventually deleted.  As claimed, the   *)
(* deletion is the work of the empty-session timer; in the code it is the  *)
(* work of the host's removal timer, which empties the player map.         *)
(***************************************************************************)
\* the timers of a disconnect fire: setTimeout callbacks are not starved
GraceSpec ==
  /\ Init
  /\ [][HumanNext]_vars
  /\ WF_vars(\E a \in Ids : HostTransferTimeout(a))
  /\ WF_vars(\E a \in Ids : RemoveTimeout(a))

\* position of player id in the insertion order of the players Map
PlayerIndex(l, id) == CHOOSE i \in DOMAIN l.players : l.players[i] = id

HostMigration ==
  /\ \A a \in Ids :
       /\ Disconnect(a)
            => /\ lobby'.isHost = lobby.isHost
               /\ (a \in lobby'.hostTransferTimeout)
                    = \/ a \in lobby.hostTransferTimeout
                      \/ a \in lobby.isHost /\ lobby.status = "waiting"
       /\ Rejoin(a)
            => /\ lobby'.isHost = lobby.isHost
               /\ a \notin lobby'.hostTransferTimeout
       /\ HostTransferTimeout(a)
            => LET others == (lobby.playerSockets \cap Range(lobby.players)) \ {a}
               IN /\ lobby.status = "waiting"
                  /\ a \notin lobby.playerSockets
                  /\ IF a \in lobby.isHost /\ others # {}
                     THEN \E b \in others :
                            /\ \A c \in others : PlayerIndex(lobby, b) <= PlayerIndex(lobby, c)
                            /\ lobby'.isHost = (lobby.isHost \ {a}) \cup {b}
                     ELSE lobby'.isHost = lobby.isHost
  /\ lobby'.isHost # lobby.isHost => \E a \in Ids : HostTransferTimeout(a)

\* the host is the only player and has no socket
SoleHostAway ==
  /\ registered
  /\ lobby.players = <<HostId>>
  /\ HostId \notin lobby.playerSockets

\* unless the host returns or somebody joins, the session is deleted
SoleHostDeleted ==
  SoleHostAway ~> \/ ~registered
                  \/ HostId \in lobby.playerSockets
                  \/ Len(lobby.players) > 1

C22_NoNewPlayerAfterStart ==
  [][ /\ (registered /\ lobby.status \in {"playing", "finished"})
           => /\ Range(lobby'.players) \subseteq Range(lobby.players)
              /\ \A a \in Ids :
                   /\ JoinNew(a) => lobby' = lobby /\ emitted' = {"lobbyError"}
                   /\ \A b \in Ids :
                        (AddBot(a, b) \/ RemoveBot(a, b)) => lobby' = lobby
      /\ \A a \in Ids :
           Rejoin(a) => /\ a \in lobby'.playerSockets
                        /\ lobby'.players = lobby.players
                        /\ lobby'.status = lobby.status
                        /\ emitted' # {"lobbyError"}
    ]_vars

\* a new player has been turned away from a running game (the bot id is
\* used up and the bot removed, so the error answers a join)
C22_Witness ==
  /\ registered
  /\ lobby.status = "playing"
  /\ emitted = {"lobbyError"}
  /\ "b" \in issuedIds
  /\ lobby.players = <<"h">>

(***************************************************************************)
(* The contract of the score, stated on the characters of the word: tile k *)
(* of the sequence covers the characters first..last.                      *)
(***************************************************************************)
TileLetters(l, bot, tileIds) == [k \in DOMAIN tileIds |-> dieOf(l, bot, tileIds[k])]

FirstChar(letters, k) == 1 + SumLengths(SubSeq(letters, 1, k - 1))

LastChar(letters, k) == SumLengths(SubSeq(letters, 1, k))

\* the condition of modifier mod for a word of characters chars whose
\* modifier tile covers first..last
ConditionHolds(mod, chars, first, last) ==
  LET n == Len(chars)
      vowels == Cardinality({ i \in DOMAIN chars : chars[i] \in {"A", "E", "I", "O", "U"} })
  IN CASE mod.type = "multiply" -> TRUE
       [] mod.type = "bonus" -> TRUE
       [] mod.type = "position" ->
            ( CASE mod.position = "start" -> first = 1
                [] mod.position = "end" -> last = n
                [] mod.position = "middle" -> first > 1 /\ last < n
                [] mod.position = "second" -> 2 \in first..last
                [] mod.position = "penultimate" -> n >= 2 /\ (n - 1) \in first..last
                [] mod.position = "center" -> n % 2 = 1 /\ ((n + 1) \div 2) \in first..last )
       [] mod.type = "length" ->
            IF mod.minLength > 0 THEN n >= mod.minLength ELSE n = mod.exactLength
       [] mod.type = "parity" -> (n % 2 = 1) <=> (mod.parity = "odd")
       [] mod.type = "neighbor" ->
            \/ first > 1 /\ chars[first - 1] \in {"A", "E", "I", "O", "U"}
            \/ last < n /\ chars[last + 1] \in {"A", "E", "I", "O", "U"}
       [] mod.type = "composition" ->
            IF mod.compositionType = "balanced" THEN 2 * vowels = n ELSE 2 * vowels > n

\* the sum of the points of the tiles; when the tile community-<dieIndex> is
\* in the sequence and the condition holds, that tile counts multiplier
\* times and the flat bonus is added
ContractScore(l, bot, tileIds) ==
  LET letters == TileLetters(l, bot, tileIds)
      mod == MODIFIERS[l.modifier.index + 1]
      at == { k \in DOMAIN tileIds :
                tileIds[k] = [source |-> "community", digits |-> ToDigits(l.modifier.dieIndex)] }
      points == [k \in DOMAIN tileIds |-> LetterPoints(letters[k])]
      base == SumPoints(letters, {}, 1)
  IN IF at = {} THEN base
     ELSE LET k == CHOOSE k \in at : TRUE
          IN IF ConditionHolds(mod, Flatten(letters), FirstChar(letters, k), LastChar(letters, k))
             THEN base + (mod.multiplier - 1) * points[k] + mod.bonus
             ELSE base

\* the step is the acceptance of the tile sequence tileIds for bot
Accepts(bot, outcome) ==
  /\ \E t \in BotTaskStates : BotOracleReturn(t, outcome) /\ t.bot = bot
  /\ ~\E i \in DOMAIN lobby.playerSubmissions : lobby.playerSubmissions[i].visibleId = bot
  /\ \E i \in DOMAIN lobby'.playerSubmissions : lobby'.playerSubmissions[i].visibleId = bot

ScoreOf(l, id) ==
  l.playerSubmissions[CHOOSE i \in DOMAIN l.playerSubmissions :
                        l.playerSubmissions[i].visibleId = id].score

WordOf(l, id) ==
  l.playerSubmissions[CHOOSE i \in DOMAIN l.playerSubmissions :
                        l.playerSubmissions[i].visibleId = id].word

BonusRound(l) == l.modifier # NoModifier /\ MODIFIERS[l.modifier.index + 1].type = "bonus"

\* the sum of the points of the tiles of a sequence
PlainSum(l, bot, tileIds) == SumPoints(TileLetters(l, bot, tileIds), {}, 1)

\* the tile of the modifier's community slot is part of the sequence
UsesModifierTile(l, tileIds) ==
  \E k \in DOMAIN tileIds :
    tileIds[k] = [source |-> "community", digits |-> ToDigits(l.modifier.dieIndex)]

PayloadTiles(payload) ==
  { [id |-> [source |-> "community", index |-> i - 1], letter |-> payload.communityDice[i]] :
      i \in { j \in DOMAIN payload.communityDice : payload.communityDice[j] # "" } }
  \cup { [id |-> [source |-> "player", index |-> i - 1], letter |-> payload.playerDice[i]] :
           i \in { j \in DOMAIN payload.playerDice : payload.playerDice[j] # "" } }

LetterAt(payload, id) ==
  IF id.source = "community" THEN payload.communityDice[id.index + 1]
  ELSE payload.playerDice[id.index + 1]

\* the arrangements of distinct tiles of the payload, a private tile among
\* them, that spell the dictionary word w
Playable(payload, w) ==
  { ids \in Spellings(PayloadTiles(payload), {}, Spell(w)) :
      \E k \in DOMAIN ids : ids[k].source = "player" }

PlayableWords(payload) == { w \in dictionary : Playable(payload, w) # {} }

\* the score of the arrangement ids under the modifier of the payload
PayloadScore(payload, ids) ==
  LET letters == [k \in DOMAIN ids |-> LetterAt(payload, ids[k])]
      base == SumPoints(letters, {}, 1)
      at == { k \in DOMAIN ids :
                ids[k] = [source |-> "community", index |-> payload.modifier.dieIndex] }
  IN IF payload.modifier = NoModifier THEN 0
     ELSE IF at = {} THEN base
     ELSE LET k == CHOOSE k \in at : TRUE
              mod == MODIFIERS[payload.modifier.index + 1]
          IN IF ConditionHolds(mod, Flatten(letters), FirstChar(letters, k), LastChar(letters, k))
             THEN base + (mod.multiplier - 1) * LetterPoints(letters[k]) + mod.bonus
             ELSE base

Answered == worker.posted.type = "bestWordResult"

\* C25: the word the best-word search returns is in the dictionary and is
\* spelled by an arrangement of distinct tiles of the payload with a private
\* tile among them; it returns no word when there is no such arrangement
C25_BestWordPlayable ==
  Answered =>
    IF PlayableWords(worker.payload) = {}
    THEN worker.posted.bestWord = ""
    ELSE worker.posted.bestWord \in PlayableWords(worker.payload)

\* S, T, A, E spell SAT and AT, the private X and Z spell nothing: no word
C25_Witness ==
  /\ Answered
  /\ worker.payload.communityDice = <<"S", "T", "A", "E">>
  /\ worker.payload.playerDice = <<"X", "Z">>
  /\ worker.posted.bestWord = ""

\* the scores the playable arrangements of word w reach
ScoresOf(payload, w) == { PayloadScore(payload, ids) : ids \in Playable(payload, w) }

\* the best score over all playable arrangements of all words
TopScore(payload) ==
  LET scores == UNION { ScoresOf(payload, w) : w \in PlayableWords(payload) }
  IN CHOOSE s \in scores : \A r \in scores : r <= s

\* the words that reach the best score, and the longest of them
TopWords(payload) == { w \in PlayableWords(payload) : TopScore(payload) \in ScoresOf(payload, w) }

LongestTopWords(payload) ==
  { w \in TopWords(payload) : \A v \in TopWords(payload) : Len(Spell(v)) <= Len(Spell(w)) }

RetryInit ==
  /\ \E rnd \in Rolls :
       lobby = startNewRound([createLobby(rnd.shuffle) EXCEPT
                                !.status = "playing",
                                !.players = EnginePlayers], rnd)
  /\ registered = TRUE
  /\ pendingStarts = 0
  /\ botTasks = SetToBag({[bot |-> "b", attempts |-> 0]})
  /\ issuedIds = Range(EnginePlayers)
  /\ events = 0
  /\ emitted = {"newRound"}
  /\ worker = WorkerIdle
  /\ sockets = NoSockets

BotStarts == \E t \in BotTaskStates : BotTimeout(t)

OracleAnswers ==
  \E t \in BotTaskStates :
    /\ BagIn(t, botTasks)
    /\ t.attempts > 0
    /\ \E outcome \in EngineResponses(lobby, t.bot) : BotOracleReturn(t, outcome)

RetryNext ==
  \/ BotStarts
  \/ OracleAnswers
  \/ \E data \in Submissions : SubmitWord("h", data)
  \/ Tick

RetrySpec ==
  /\ RetryInit
  /\ [][RetryNext]_vars
  /\ WF_vars(BotStarts)
  /\ WF_vars(OracleAnswers)
  /\ WF_vars(Tick)

\* the task of bot that awaits its answer to request number k
Awaits(bot, k) == BagIn([bot |-> bot, attempts |-> k], botTasks)

NoTaskOf(bot) == \A k \in 0..(BotRetries + 1) : ~Awaits(bot, k)

Submitted(l, id) == \E i \in DOMAIN l.playerSubmissions : l.playerSubmissions[i].visibleId = id

\* C27: a bot's negotiation ends after at most BotRetries requests to the
\* oracle: an answer that is unparseable or rejected costs one attempt and
\* leaves the round as it is, the first accepted candidate is submitted and
\* ends the loop, the loop ends when the last attempt fails, and a bot
\* without a submission is reported with noSubmission at the reveal
C27_BoundedNegotiation ==
  /\ [](\A k \in 0..(BotRetries + 1) : Awaits("b", k) => k <= BotRetries)
  /\ [][ \A k \in 1..BotRetries :
           \A outcome \in EngineResponses(lobby, "b") :
             BotOracleReturn([bot |-> "b", attempts |-> k], outcome) =>
               LET validation ==
                     IF outcome.kind = "candidate"
                     THEN validateAndScoreBotWord(lobby, "b", outcome.word, outcome.tileIds)
                     ELSE Rejection("", "unparseable")
               IN IF validation.isValid
                  THEN /\ NoTaskOf("b")'
                       /\ ~lobby.revealed =>
                            /\ Submitted(lobby', "b")
                            /\ WordOf(lobby', "b") = outcome.word
                            /\ ScoreOf(lobby', "b") = validation.score
                  ELSE /\ lobby' = lobby
                       /\ IF k < BotRetries THEN Awaits("b", k + 1)' ELSE NoTaskOf("b")' ]_vars
  /\ [][ (RevealStep /\ ~Submitted(lobby', "b")) =>
           \E i \in DOMAIN LastEntry(lobby').results :
             /\ LastEntry(lobby').results[i].visibleId = "b"
             /\ LastEntry(lobby').results[i].noSubmission ]_vars
  /\ ~NoTaskOf("b") ~> NoTaskOf("b")

\* the round is still open, the task is over and the bot has no submission:
\* every attempt has failed
C27_Witness ==
  /\ lobby.roundNumber = 1
  /\ ~lobby.revealed
  /\ NoTaskOf("b")
  /\ ~Submitted(lobby, "b")
  /\ "b" \in Range(lobby.players)

\* the Scoring Engine accepts word for player id with the score given: the
\* word is in the dictionary and an arrangement of distinct tiles of the
\* round, a tile of the player among them, spells it and scores that much
EngineAccepts(l, id, word, score) ==
  /\ word \in dictionary
  /\ \E ids \in Spellings(PromptTiles(l, id), {}, Spell(word)) :
       /\ \E k \in DOMAIN ids : ids[k].source = "player"
       /\ ContractScore(l, id, ids) = score

\* C28: every submission recorded as valid in a round, of a human or of a
\* bot, is one the Scoring Engine accepts for the tiles of the round, with
\* the score the engine computes for it
C28_ValidMeansEngineValid ==
  \A i \in DOMAIN lobby.playerSubmissions :
    (lobby.playerSubmissions[i].isValid /\ Active) =>
      EngineAccepts(lobby, lobby.playerSubmissions[i].visibleId,
                    lobby.playerSubmissions[i].word, lobby.playerSubmissions[i].score)

\* h holds N, O, D beside S, T, A, R, E and is recorded with CAT, valid, 5
C28_Witness ==
  /\ lobby.communityDice = <<"S", "T", "A", "R", "E">>
  /\ lobby.dice["h"] = <<"N", "O", "D">>
  /\ ~lobby.revealed
  /\ \E i \in DOMAIN lobby.playerSubmissions :
       lobby.playerSubmissions[i] = [visibleId |-> "h", word |-> "CAT", score |-> 5,
                                     isValid |-> TRUE]

\* what a request to the oracle lists as rejected so far
RejectedIn(prompt) == IF "rejected" \in DOMAIN prompt THEN prompt.rejected ELSE <<>>

\* the step is a failed attempt number k of bot after which it asks again
Retries(bot, k, outcome) ==
  /\ BotOracleReturn([bot |-> bot, attempts |-> k], outcome)
  /\ BagIn([bot |-> bot, attempts |-> k + 1], botTasks')

\* C29: the request of a retry lists the candidate just rejected with the
\* reason of its rejection, 'unparseable' for an answer that could not be read
C29_RetryListsRejections ==
  [][ \A k \in 1..BotRetries : \A outcome \in EngineResponses(lobby, "b") :
        Retries("b", k, outcome) =>
          \E i \in DOMAIN RejectedIn(generateBotWordPrompt(lobby', "b")) :
            /\ RejectedIn(generateBotWordPrompt(lobby', "b"))[i].word = outcome.word
            /\ RejectedIn(generateBotWordPrompt(lobby', "b"))[i].reason =
                 IF outcome.kind = "candidate"
                 THEN validateAndScoreBotWord(lobby, "b", outcome.word, outcome.tileIds).reason
                 ELSE "unparseable" ]_vars

\* the second request is under way after a first answer that failed
C29_Witness ==
  /\ BagIn([bot |-> "b", attempts |-> 2], botTasks)
  /\ ~lobby.revealed
  /\ ~\E i \in DOMAIN lobby.playerSubmissions : lobby.playerSubmissions[i].visibleId = "b"

\* C30: a bot's loop makes no request to the oracle once its round is
\* revealed: an answer that comes back after the reveal ends the loop
C30_NoRequestAfterReveal ==
  [][ \A k \in 1..BotRetries : \A outcome \in EngineResponses(lobby, "b") :
        (BotOracleReturn([bot |-> "b", attempts |-> k], outcome) /\ lobby.revealed)
          => \A j \in 0..(BotRetries + 1) : ~BagIn([bot |-> "b", attempts |-> j], botTasks') ]_vars

\* the slot a tile reference resolves to: its source and the number parseInt
\* reads from its digits
SlotOf(tileId) == [source |-> tileId.source, index |-> ParseInt(tileId.digits)]

\* the reference names a slot of the round: community 0..4 or player 0..2
NamesSlot(l, bot, tileId) ==
  \/ tileId.source = "community" /\ ParseInt(tileId.digits) \in 0..(Len(l.communityDice) - 1)
  \/ tileId.source = "player" /\ ParseInt(tileId.digits) \in 0..(Len(l.dice[bot]) - 1)

\* C31: validation accepts a candidate only if the word is in the dictionary,
\* every reference names an existing slot, no slot is referenced twice (also
\* under two spellings of the reference), the letters of the tiles spell the
\* word and a private tile is among them
C31_AcceptsOnlyWellFormed ==
  [][ \A outcome \in EngineResponses(lobby, "b") :
        Accepts("b", outcome) =>
          /\ outcome.word \in Vocabulary \ {"TIRS"}
          /\ \A k \in DOMAIN outcome.tileIds : NamesSlot(lobby, "b", outcome.tileIds[k])
          /\ \A j, k \in DOMAIN outcome.tileIds :
               j # k => SlotOf(outcome.tileIds[j]) # SlotOf(outcome.tileIds[k])
          /\ Flatten(TileLetters(lobby, "b", outcome.tileIds)) = Spell(outcome.word)
          /\ \E k \in DOMAIN outcome.tileIds : outcome.tileIds[k].source = "player" ]_vars

\* the bot holds L, I, G beside S, T, A, R, E and is recorded with ALL
C31_Witness ==
  /\ lobby.communityDice = <<"S", "T", "A", "R", "E">>
  /\ lobby.dice["b"] = <<"L", "I", "G">>
  /\ \E i \in DOMAIN lobby.playerSubmissions :
       /\ lobby.playerSubmissions[i].visibleId = "b"
       /\ lobby.playerSubmissions[i].word = "ALL"
       /\ lobby.playerSubmissions[i].isValid

\* the letter positions, from 0, that tile k of the dice letters occupies
RangeStart(letters, k) == Len(Flatten(SubSeq(letters, 1, k - 1)))

RangeEnd(letters, k) == Len(Flatten(SubSeq(letters, 1, k))) - 1

\* the conditions of the position, length and parity modifiers as claimed:
\* "second" and "penultimate" on the start and on the end of the range
HoldsAsClaimed(mod, n, start, end) ==
  CASE mod.type = "position" ->
         ( CASE mod.position = "start" -> start = 0
             [] mod.position = "end" -> end = n - 1
             [] mod.position = "middle" -> start > 0 /\ end < n - 1
             [] mod.position = "second" -> start = 1
             [] mod.position = "penultimate" -> end = n - 2
             [] mod.position = "center" -> n % 2 = 1 /\ (n \div 2) \in start..end )
    [] mod.type = "length" ->
         IF mod.minLength > 0 THEN n >= mod.minLength ELSE n = mod.exactLength
    [] mod.type = "parity" -> (n % 2 = 1) <=> (mod.parity = "odd")

\* the same with "second" and "penultimate" on the letters the range covers
HoldsCovering(mod, n, start, end) ==
  CASE mod.type = "position" /\ mod.position = "second" -> 1 \in start..end
    [] mod.type = "position" /\ mod.position = "penultimate" -> n >= 2 /\ (n - 2) \in start..end
    [] OTHER -> HoldsAsClaimed(mod, n, start, end)

\* the step accepts a sequence with the tile of a position, length or parity
\* modifier in it, as tile k
AcceptsWithModifierTile(outcome, k) ==
  /\ Accepts("b", outcome)
  /\ MODIFIERS[lobby.modifier.index + 1].type \in {"position", "length", "parity"}
  /\ k \in DOMAIN outcome.tileIds
  /\ outcome.tileIds[k] = [source |-> "community", digits |-> ToDigits(lobby.modifier.dieIndex)]

\* the modifier took effect: the score stored exceeds the sum of the points
TookEffect(outcome) == ScoreOf(lobby', "b") > PlainSum(lobby, "b", outcome.tileIds)

HostOnlyRequest(a) ==
  \/ \E data \in SettingsData : UpdateSettings(a, data)
  \/ \E b \in BotIds : AddBot(a, b)
  \/ \E b \in Ids : RemoveBot(a, b)
  \/ GameStart(a)
  \/ NextRound(a)
  \/ ViewFinalResults(a)
  \/ EndEarly(a)
  \/ PlayAgain(a)

\* C33: a host-only action asked for by a player who is not the host leaves
\* the session as it is: status, settings, players, round number,
\* submissions, timer, revealed flag and history, and no round start or bot
\* task is added
C33_NonHostChangesNothing ==
  [][ \A a \in Ids :
        (HostOnlyRequest(a) /\ ~(a \in Range(lobby.players) /\ a \in lobby.isHost)) =>
          /\ lobby' = lobby
          /\ registered' = registered
          /\ pendingStarts' = pendingStarts
          /\ botTasks' = botTasks ]_vars

\* p, not the host, has asked to start the game and got game:error
C33_Witness ==
  /\ registered
  /\ emitted = {"gameError"}
  /\ lobby.status = "waiting"
  /\ lobby.players = <<"h", "p">>
  /\ lobby.isHost = {"h"}
  /\ events = 2

\* the letters of the LETTERS table, the domain of LetterPoints
TableLetters ==
  {"A", "E", "I", "O", "U", "L", "N", "R", "S", "T", "D", "G", "B", "C", "M",
   "P", "H", "F", "V", "W", "Y", "K", "J", "X", "Qu", "Z"}

\* a dealt set of n tiles: n tiles of the table, one of them a vowel
WellFormedSet(dice, n) ==
  /\ Len(dice) = n
  /\ \A i \in DOMAIN dice : dice[i] \in TableLetters
  /\ \E i \in DOMAIN dice : dice[i] \in {"A", "E", "I", "O", "U"}

onDisconnect(l, a) ==
  [l EXCEPT
     !.playerSockets = @ \ {a},
     !.disconnectedAt = @ \cup {a},
     !.hostTransferTimeout =
        IF a \in l.isHost /\ l.status = "waiting" THEN @ \cup {a} ELSE @,
     !.removeTimeout = @ \cup {a},
     !.deleteTimeout = IF l.playerSockets \ {a} = {} THEN TRUE ELSE @]

\* lobby:join with existingId a on a new socket while a's socket is open
RejoinOverLive(a) ==
  /\ registered
  /\ a \in PlayerSet \cap HumanIds
  /\ a \in lobby.playerSockets \/ a \in sockets.orphan
  /\ a \notin sockets.old
  /\ Event
  /\ lobby' = [lobby EXCEPT !.removeTimeout = @ \ {a},
                            !.hostTransferTimeout = @ \ {a},
                            !.disconnectedAt = @ \ {a},
                            !.playerSockets = @ \cup {a},
                            !.deleteTimeout = FALSE]
  /\ sockets' = [old |-> sockets.old \cup {a}, orphan |-> sockets.orphan \ {a}]
  /\ emitted' = {}
  /\ UNCHANGED <<registered, pendingStarts, botTasks, issuedIds, worker>>

\* the disconnect event of the socket that a's later join has replaced
DisconnectOld(a) ==
  /\ a \in sockets.old
  /\ Event
  /\ IF registered /\ a \in PlayerSet
     THEN /\ lobby' = onDisconnect(lobby, a)
          /\ sockets' = [old |-> sockets.old \ {a},
                         orphan |-> IF a \in lobby.playerSockets
                                    THEN sockets.orphan \cup {a}
                                    ELSE sockets.orphan]
     ELSE /\ UNCHANGED lobby
          /\ sockets' = [sockets EXCEPT !.old = @ \ {a}]
  /\ emitted' = {}
  /\ UNCHANGED <<registered, pendingStarts, botTasks, issuedIds, worker>>

\* the disconnect event of a's newest socket after the Map lost its entry
DisconnectOrphan(a) ==
  /\ a \in sockets.orphan
  /\ Event
  /\ IF registered /\ a \in PlayerSet
     THEN lobby' = onDisconnect(lobby, a)
     ELSE UNCHANGED lobby
  /\ sockets' = [sockets EXCEPT !.orphan = @ \ {a}]
  /\ emitted' = {}
  /\ UNCHANGED <<registered, pendingStarts, botTasks, issuedIds, worker>>

SocketNext ==
  \/ \E a \in HumanIds : JoinNew(a)
  \/ \E a \in HumanIds : a \notin sockets.orphan /\ Rejoin(a)
  \/ \E a \in HumanIds : RejoinOverLive(a)
  \/ \E a \in HumanIds : Disconnect(a)
  \/ \E a \in HumanIds : DisconnectOld(a)
  \/ \E a \in HumanIds : DisconnectOrphan(a)
  \/ \E a \in HumanIds : HostTransferTimeout(a)
  \/ \E a \in HumanIds : RemoveTimeout(a)
  \/ DeleteTimeout

SocketSpec == Init /\ [][SocketNext]_vars

\* the newest socket of a is open
HasLiveSocket(a) == a \in lobby.playerSockets \/ a \in sockets.orphan

\* C35: a player whose current connection is open is a player of a
\* registered session, has its entry in the connection map, is not marked
\* disconnected, has no removal or host-transfer timer armed against it, and
\* the session has no deletion timer armed; the disconnect of a connection
\* the player has replaced changes none of this
C35_LiveNeverAbsent ==
  \A a \in HumanIds :
    HasLiveSocket(a) =>
      /\ registered
      /\ a \in Range(lobby.players)
      /\ a \in lobby.playerSockets
      /\ a \notin lobby.disconnectedAt
      /\ a \notin lobby.removeTimeout
      /\ a \notin lobby.hostTransferTimeout
      /\ ~lobby.deleteTimeout

\* p is connected on its newest socket and has been removed from the lobby
C35_Witness ==
  /\ registered
  /\ "p" \in sockets.orphan
  /\ "p" \notin Range(lobby.players)
  /\ "p" \in issuedIds

\* C36: the round countdown runs only while the status is playing and the
\* round is not revealed: in status waiting or finished, or with the round
\* revealed, no round timer is active and no round start is pending
C36_CountdownOnlyInRound ==
  (lobby.status \in {"waiting", "finished"} \/ lobby.revealed) =>
     /\ ~lobby.timerInterval
     /\ pendingStarts = 0

\* the countdown of a round runs in a lobby the host has taken back to
\* waiting
C36_Witness ==
  /\ registered
  /\ lobby.status = "waiting"
  /\ lobby.timerInterval
  /\ lobby.roundNumber = 1
  /\ ~lobby.revealed

\* the players of the Map whose isHost flag is set
Hosts == {id \in Range(lobby.players) : id \in lobby.isHost}

\* C37: a registered session with a non-empty player map has exactly one
\* player flagged as host, and that player is not a bot
C37_ExactlyOneHost ==
  (registered /\ lobby.players # <<>>) =>
     /\ Cardinality(Hosts) = 1
     /\ Hosts \cap BotIds = {}

\* p is connected to a running game that has no host: h was removed two
\* minutes after its disconnect
C37_Witness ==
  /\ registered
  /\ lobby.status = "playing"
  /\ lobby.players = <<"p">>
  /\ "p" \in lobby.playerSockets
  /\ Hosts = {}

\* C38: a submit-word event is stored only during an active round: one
\* that arrives while the status is not playing, before the first round has
\* started, or after the reveal changes no submission, points, timer,
\* revealed flag or round history
C38_SubmitOnlyInActiveRound ==
  [][ \A a \in Ids, data \in Submissions :
        (/\ SubmitWord(a, data)
         /\ ~(lobby.status = "playing" /\ lobby.roundNumber >= 1 /\ ~lobby.revealed)) =>
          /\ lobby'.playerSubmissions = lobby.playerSubmissions
          /\ lobby'.totalPoints = lobby.totalPoints
          /\ lobby'.timerRemaining = lobby.timerRemaining
          /\ lobby'.timerInterval = lobby.timerInterval
          /\ lobby'.revealed = lobby.revealed
          /\ lobby'.roundHistory = lobby.roundHistory ]_vars

\* a word submitted in the waiting lobby by one of two players is stored
C38_Witness ==
  /\ registered
  /\ lobby.status = "waiting"
  /\ lobby.roundNumber = 0
  /\ lobby.players = <<"h", "p">>
  /\ Len(lobby.playerSubmissions) = 1
  /\ lobby.playerSubmissions[1].visibleId = "p"
  /\ emitted = {"submitConfirmed"}

(***************************************************************************)
(* Bot tasks across rounds.  A scheduleBotSubmission closure holds the     *)
(* lobby and the bot, not the round; here each task also carries the round *)
(* whose startNewRound scheduled it, so that a task can be told from the   *)
(* task of a later round.  One game of <<h, b>>: h submits, the timer      *)
(* runs, h asks for the next round, the tasks take their steps.            *)
(***************************************************************************)
\* the tasks startNewRound schedules for the round of l
RoundTasks(l) ==
  SetToBag({[bot |-> b, attempts |-> 0, round |-> l.roundNumber] :
              b \in Range(l.players) \cap BotIds})

RoundTaskStates == [bot : BotIds, attempts : 0..BotRetries, round : 1..TotalRounds]

StaleInit ==
  /\ \E rnd \in Rolls :
       lobby = startNewRound([createLobby(rnd.shuffle) EXCEPT
                                !.status = "playing",
                                !.players = EnginePlayers], rnd)
  /\ botTasks = RoundTasks(lobby)
  /\ registered = TRUE
  /\ pendingStarts = 0
  /\ issuedIds = Range(EnginePlayers)
  /\ events = 0
  /\ emitted = {"newRound"}
  /\ worker = WorkerIdle
  /\ sockets = NoSockets

\* game:nextRound, the tasks it schedules carrying the new round
NextRoundOfTasks(a) ==
  /\ Connected(a)
  /\ Event
  /\ IF /\ IsHostSocket(a)
        /\ lobby.status = "playing"
        /\ lobby.revealed
        /\ lobby.roundNumber < lobby.settings.totalRounds
     THEN /\ BagCardinality(botTasks) < MaxRoundTasks
          /\ \E rnd \in Rolls : lobby' = startNewRound(lobby, rnd)
          /\ botTasks' = botTasks (+) RoundTasks(lobby')
          /\ emitted' = {"newRound"}
     ELSE /\ emitted' = {}
          /\ UNCHANGED <<lobby, botTasks>>
  /\ UNCHANGED <<registered, pendingStarts, issuedIds, worker, sockets>>

RoundTaskStarts == \E t \in RoundTaskStates : BotTimeout(t)

RoundTaskAnswers ==
  \E t \in RoundTaskStates :
    /\ BagIn(t, botTasks)
    /\ t.attempts > 0
    /\ \E outcome \in OracleResponses(lobby, t.bot) : BotOracleReturn(t, outcome)

StaleNext ==
  \/ RoundTaskStarts
  \/ RoundTaskAnswers
  \/ \E data \in Submissions : SubmitWord("h", data)
  \/ Tick
  \/ NextRoundOfTasks("h")

StaleSpec == StaleInit /\ [][StaleNext]_vars

\* C39: a bot task scheduled for round N acts on round N only: when its
\* oracle call completes in another round it stores no submission, halves no
\* timer and reveals nothing, and no bot has two tasks of the same round
C39_TaskActsInItsRound ==
  /\ [](\A t \in RoundTaskStates : CopiesIn(t, botTasks) <= 1)
  /\ [](\A b \in BotIds, r \in 1..TotalRounds :
          Cardinality({t \in RoundTaskStates :
                         t.bot = b /\ t.round = r /\ BagIn(t, botTasks)}) <= 1)
  /\ [][ \A t \in RoundTaskStates :
           \A outcome \in OracleResponses(lobby, t.bot) :
             (BotOracleReturn(t, outcome) /\ t.round # lobby.roundNumber)
               => lobby' = lobby ]_vars

\* round 2 holds a word of b while the task of round 2 has not started: the
\* word was stored by the task of round 1
C39_Witness ==
  /\ lobby.roundNumber = 2
  /\ ~lobby.revealed
  /\ Submitted(lobby, "b")
  /\ BagIn([bot |-> "b", attempts |-> 0, round |-> 2], botTasks)

\* the tiles the worker scores for the dice that tileIds resolve to: a tile
\* of the worker carries its source and its index in the dice array
SequenceOf(l, bot, tileIds) ==
  [k \in DOMAIN tileIds |->
     [letter |-> dieOf(l, bot, tileIds[k]),
      source |-> tileIds[k].source,
      index |-> ParseInt(tileIds[k].digits)]]

\* C40: the server scorer and the best-word scorer agree: for every tile
\* sequence validateAndScoreBotWord accepts, under every modifier of the
\* server's table on every community die, the score it stores is the score
\* scoreSequence computes for the same dice
C40_ScorersAgree ==
  [][ \A outcome \in EngineResponses(lobby, "b") :
        Accepts("b", outcome) =>
          ScoreOf(lobby', "b") =
            scoreSequence(SequenceOf(lobby, "b", outcome.tileIds), lobby.modifier) ]_vars

\* LIST with the S of community die 0 is stored with its plain sum 4 while
\* die 0 carries a modifier that holds for every word
C40_Witness ==
  /\ lobby.modifier.dieIndex = 0
  /\ MODIFIERS[lobby.modifier.index + 1].type = "multiply"
  /\ lobby.communityDice = <<"S", "T", "A", "R", "E">>
  /\ lobby.dice["b"] = <<"L", "I", "G">>
  /\ Submitted(lobby, "b")
  /\ WordOf(lobby, "b") = "LIST"
  /\ ScoreOf(lobby, "b") = 4

====
